---- MODULE Spec2Model ----
(***************************************************************************)
(* Model of the intelx-downloader command line client: the credential      *)
(* extractor, the combolist batch built on it, the context matcher, the    *)
(* line wrapper, the preview formatter, the domain test, the sizing of a    *)
(* preview to the terminal and the interactive loop of main with its       *)
(* preview session.                                                        *)
(* Text is a sequence of one-character strings.                            *)
(***************************************************************************)
EXTENDS Integers, Sequences, FiniteSets, TLC

VARIABLES
  text, domain, credentials, extracted,
  content, term, contextLines, matches, found,
  pc, searchTerm, records, limit, limits, processingCount, processed, errors,
  apiExhausted, allCredentials, previewCalls, outputFile, console,
  wrapText, maxWidth, wrapped, wrapDone,
  maxMatches, columns, output, formatted,
  candidate, verdict, classified,
  terminalRows, sizing, sized,
  mpc, apiKey, query, searches, nRecords, nChoices, selection, cursor, downloaded,
  currentPage, preloadedContent, inFlight, event, eventPage, said, written

extractVars == <<text, domain, credentials, extracted>>
matchVars == <<content, term, contextLines, matches, found>>
batchVars == <<pc, searchTerm, records, limit, limits, processingCount, processed,
               errors, apiExhausted, allCredentials, previewCalls, outputFile, console>>
wrapVars == <<wrapText, maxWidth, wrapped, wrapDone>>
previewVars == <<maxMatches, columns, output, formatted>>
domainVars == <<candidate, verdict, classified>>
sizingVars == <<terminalRows, sizing, sized>>
flowVars == <<nRecords, nChoices, selection, cursor, downloaded>>
sessionVars == <<currentPage, preloadedContent, inFlight>>
mainVars == <<mpc, apiKey, query, searches, flowVars, sessionVars, event, eventPage, said,
              written>>
restVars == <<wrapVars, previewVars, domainVars, sizingVars, mainVars>>
pureVars == <<extractVars, matchVars, batchVars, wrapVars, previewVars, domainVars,
              sizingVars>>
vars == <<extractVars, matchVars, batchVars, restVars>>

----------------------------------------------------------------------------
(* Characters *)

Uppers == <<"A","B","C","D","E","F","G","H","I","J","K","L","M",
            "N","O","P","Q","R","S","T","U","V","W","X","Y","Z">>
Lowers == <<"a","b","c","d","e","f","g","h","i","j","k","l","m",
            "n","o","p","q","r","s","t","u","v","w","x","y","z">>
Digits == <<"0","1","2","3","4","5","6","7","8","9">>

\* The characters of the model in UTF-16 code unit order.
CodeUnitOrder ==
  <<"\t", "\n", "\r", " ", "!", "$", "-", ".", "/">> \o Digits \o <<":", "?", "@">>
  \o Uppers \o <<"[", "\\", "]", "^">> \o Lowers \o <<"{", "|", "}">>

Range(s) == {s[i] : i \in DOMAIN s}

CodeTable == [c \in Range(CodeUnitOrder) |->
                CHOOSE i \in DOMAIN CodeUnitOrder : CodeUnitOrder[i] = c]
Code(c) == CodeTable[c]

LowerTable == [c \in Range(Uppers) |-> Lowers[CHOOSE i \in DOMAIN Uppers : Uppers[i] = c]]
\* String.prototype.toLowerCase on one character; also the canonical form
\* the 'i' flag of a regular expression compares.
Lower(c) == IF c \in DOMAIN LowerTable THEN LowerTable[c] ELSE c
ToLowerCase(s) == [i \in DOMAIN s |-> Lower(s[i])]

\* \s of a regular expression, and what String.prototype.trim removes.
IsSpace(c) == c \in {" ", "\n", "\t", "\r"}

RECURSIVE TrimStart(_)
TrimStart(s) == IF s # <<>> /\ IsSpace(Head(s)) THEN TrimStart(Tail(s)) ELSE s
RECURSIVE TrimEnd(_)
TrimEnd(s) ==
  IF s # <<>> /\ IsSpace(s[Len(s)]) THEN TrimEnd(SubSeq(s, 1, Len(s) - 1)) ELSE s
Trim(s) == TrimEnd(TrimStart(s))

\* Lexicographic order on code units: the default comparison of Array.prototype.sort.
RECURSIVE StrLess(_, _)
StrLess(a, b) ==
  IF b = <<>> THEN FALSE
  ELSE IF a = <<>> THEN TRUE
  ELSE IF Code(Head(a)) # Code(Head(b)) THEN Code(Head(a)) < Code(Head(b))
  ELSE StrLess(Tail(a), Tail(b))

\* s starts, at 1-based position i of t, with the characters of lit (lower case),
\* compared without regard to case.
LiteralAt(t, i, lit) ==
  /\ i + Len(lit) - 1 <= Len(t)
  /\ \A j \in DOMAIN lit : Lower(t[i + j - 1]) = lit[j]

Min(S) == CHOOSE x \in S : \A y \in S : x <= y

\* First position >= i of t holding delim (or, with spaceStops, a white space
\* character); Len(t) + 1 when there is none.  This is where a greedy run of
\* [^delim] or [^delim\s] ends.
RunEnd(t, i, delim, spaceStops) ==
  LET stops == {j \in i..Len(t) : t[j] = delim \/ (spaceStops /\ IsSpace(t[j]))}
  IN IF stops = {} THEN Len(t) + 1 ELSE Min(stops)

----------------------------------------------------------------------------
(* extractCredentials *)

RegExpSpecials == {".", "*", "+", "?", "^", "$", "{", "}", "(", ")", "|", "[", "]", "\\"}

\* domain.replace(/[.*+?^${}()|[\]\\]/g, '\\$&')
RECURSIVE EscapeRegExp(_)
EscapeRegExp(s) ==
  IF s = <<>> THEN <<>>
  ELSE (IF Head(s) \in RegExpSpecials THEN <<"\\", Head(s)>> ELSE <<Head(s)>>)
       \o EscapeRegExp(Tail(s))

\* The atoms new RegExp() reads from the escaped domain: a backslash makes the next
\* character a literal, a bare dot matches any character but a line terminator.
RECURSIVE PatternAtoms(_)
PatternAtoms(src) ==
  IF src = <<>> THEN <<>>
  ELSE IF Head(src) = "\\" /\ Len(src) >= 2
    THEN <<[any |-> FALSE, ch |-> src[2]]>> \o PatternAtoms(Tail(Tail(src)))
  ELSE IF Head(src) = "."
    THEN <<[any |-> TRUE, ch |-> "."]>> \o PatternAtoms(Tail(src))
  ELSE <<[any |-> FALSE, ch |-> Head(src)]>> \o PatternAtoms(Tail(src))

AtomMatches(atom, c) ==
  IF atom.any THEN c \notin {"\n", "\r"} ELSE Lower(c) = Lower(atom.ch)

AtomsAt(t, i, atoms) ==
  /\ i + Len(atoms) - 1 <= Len(t)
  /\ \A j \in DOMAIN atoms : AtomMatches(atoms[j], t[i + j - 1])

NoMatch == [ok |-> FALSE, u |-> <<>>, p |-> <<>>, lastIndex |-> 0]

\* The triple without the optional path group: d([^d\s]+)d([^d\s\n]+)
TripleAtWithoutPath(t, q, d) ==
  LET uEnd == RunEnd(t, q + 1, d, TRUE)
      pEnd == RunEnd(t, uEnd + 1, d, TRUE)
  IN IF /\ q <= Len(t) /\ t[q] = d
        /\ uEnd > q + 1 /\ uEnd <= Len(t) /\ t[uEnd] = d
        /\ pEnd > uEnd + 1
     THEN [ok |-> TRUE, u |-> SubSeq(t, q + 1, uEnd - 1),
           p |-> SubSeq(t, uEnd + 1, pEnd - 1), lastIndex |-> pEnd]
     ELSE NoMatch

\* (?:/[^d]*)?d([^d\s]+)d([^d\s\n]+) tried at position q of t, d being the delimiter.
\* The optional group is taken when t[q] is "/", and then [^d]* must run up to the
\* first d (a shorter run is followed by a character that is not d); without "/"
\* the delimiter must stand at q itself.  The user name runs up to the next d or
\* white space and must be followed by d; the password is the longest run.
TripleAt(t, q, d) ==
  LET r == IF q <= Len(t) /\ t[q] = "/" THEN RunEnd(t, q + 1, d, FALSE) ELSE q
      uEnd == RunEnd(t, r + 1, d, TRUE)
      pEnd == RunEnd(t, uEnd + 1, d, TRUE)
  IN IF /\ r <= Len(t) /\ t[r] = d
        /\ uEnd > r + 1 /\ uEnd <= Len(t) /\ t[uEnd] = d
        /\ pEnd > uEnd + 1
     THEN [ok |-> TRUE, u |-> SubSeq(t, r + 1, uEnd - 1),
           p |-> SubSeq(t, uEnd + 1, pEnd - 1), lastIndex |-> pEnd]
     ELSE NoMatch

\* pattern1 tried at position s: the domain, then the colon triple.
Pattern1At(t, s, atoms) ==
  IF AtomsAt(t, s, atoms) THEN TripleAt(t, s + Len(atoms), ":") ELSE NoMatch

\* (?:https?://)? at position s: the length of the protocol it can take.
ProtocolLen(t, s) ==
  IF LiteralAt(t, s, <<"h","t","t","p","s",":","/","/">>) THEN 8
  ELSE IF LiteralAt(t, s, <<"h","t","t","p",":","/","/">>) THEN 7
  ELSE 0

\* pattern2 tried at position s: first with the protocol, then without it.
Pattern2At(t, s, atoms) ==
  LET n == ProtocolLen(t, s)
      withProtocol == IF n > 0 /\ AtomsAt(t, s + n, atoms)
                      THEN TripleAt(t, s + n + Len(atoms), "|") ELSE NoMatch
  IN IF withProtocol.ok THEN withProtocol
     ELSE IF AtomsAt(t, s, atoms) THEN TripleAt(t, s + Len(atoms), "|")
     ELSE NoMatch

PatternAt(t, s, atoms, which) ==
  IF which = 1 THEN Pattern1At(t, s, atoms) ELSE Pattern2At(t, s, atoms)

\* while ((match = pattern.exec(text)) !== null): the matches of a global pattern,
\* each search starting where the previous match ended.
RECURSIVE ExecAll(_, _, _, _)
ExecAll(t, from, atoms, which) ==
  LET starts == {s \in from..Len(t) : PatternAt(t, s, atoms, which).ok}
  IN IF starts = {} THEN <<>>
     ELSE LET m == PatternAt(t, Min(starts), atoms, which)
          IN <<m>> \o ExecAll(t, m.lastIndex, atoms, which)

\* Array.prototype.push in place of Set.prototype.add.
SetAddAsPush(set, x) == Append(set, x)

\* Set.prototype.add on a Set kept in insertion order.
SetAdd(set, x) == IF x \in Range(set) THEN set ELSE Append(set, x)

\* The body of either while loop: trim, drop empty parts, add "username:password".
RECURSIVE AddMatches(_, _)
AddMatches(set, ms) ==
  IF ms = <<>> THEN set
  ELSE LET username == Trim(Head(ms).u)
           password == Trim(Head(ms).p)
       IN AddMatches(IF Len(username) > 0 /\ Len(password) > 0
                       THEN SetAdd(set, username \o <<":">> \o password)
                       ELSE set,
                     Tail(ms))

Pattern1Matches(txt, dom) == ExecAll(txt, 1, PatternAtoms(EscapeRegExp(dom)), 1)
Pattern2Matches(txt, dom) == ExecAll(txt, 1, PatternAtoms(EscapeRegExp(dom)), 2)

\* Array.from(credentials)
ExtractCredentials(txt, dom) ==
  AddMatches(AddMatches(<<>>, Pattern1Matches(txt, dom)), Pattern2Matches(txt, dom))

----------------------------------------------------------------------------
(* Inputs of extractCredentials *)

MaxLines == 2
MaxRecords == 3

\* A domain isDomain accepts: the combolist is offered for such terms only.
Dom == <<"d", ".", "c", "o">>
Https == <<"h","t","t","p","s",":","/","/">>

\* The four documented line formats (README, Combolist Generation).
FormatLine(f, path, u, p) ==
  CASE f = 1 -> Dom \o <<":">> \o u \o <<":">> \o p
    [] f = 2 -> Dom \o <<"/">> \o path \o <<":">> \o u \o <<":">> \o p
    [] f = 3 -> Https \o Dom \o <<"/">> \o path \o <<"|">> \o u \o <<"|">> \o p
    [] f = 4 -> Dom \o <<"/">> \o path \o <<"|">> \o u \o <<"|">> \o p

\* User names and passwords: no white space, no ':' and no '|'.
Words == {<<"a">>, <<"a", "b">>, <<"A">>, <<"b", "/", "a">>, Dom}
\* Paths: no ':' and no '|'.
Paths == {<<>>, <<"x">>, <<"x", " ", "y">>, Dom}

OneLineTexts ==
  {FormatLine(f, path, u, p) \o nl :
     f \in 1..4, path \in Paths, u \in Words, p \in Words, nl \in {<<>>, <<"\n">>}}

\* Lines of the texts of several lines: credential lines and lines that are not.
CredentialLines == {FormatLine(f, <<"x">>, <<"a">>, p) : f \in 1..4, p \in {<<"b">>, <<"c">>}}
OtherLines ==
  { <<>>,
    Dom \o <<"/", "x">>,
    <<"e", ".", "f", ":", "a", ":", "b">>,
    <<"d", "x", "c", "o", ":", "a", ":", "b">>,
    <<"D", ".", "C", "O", ":", "a", ":", "b">>,
    Dom \o <<":", "a", ":", "b", ":", "c">>,
    Dom \o <<":", "a", " ", ":", "b">>,
    <<"h","t","t","p",":","/","/">> \o Dom \o <<"|", "a", "|", "b">> }
Lines == CredentialLines \cup OtherLines

RECURSIVE Join(_)
\* Array.prototype.join('\n')
Join(ls) ==
  IF ls = <<>> THEN <<>>
  ELSE IF Len(ls) = 1 THEN ls[1]
  ELSE ls[1] \o <<"\n">> \o Join(Tail(ls))

LineSeqs(n) == UNION {[1..k -> Lines] : k \in 0..n}
ManyLineTexts == {Join(ls) : ls \in LineSeqs(MaxLines)}

ExtractTexts == OneLineTexts \cup ManyLineTexts

\* Before getApiLimits has answered, and before anything is written.
NoLimits == [kind |-> "none", hasPath |-> FALSE, hasCredit |-> FALSE, Credit |-> 0,
             CreditMax |-> 0]
NoFile == [written |-> FALSE, name |-> <<>>, data |-> <<>>]

ExtractIdle == text = <<>> /\ domain = <<>> /\ credentials = <<>> /\ extracted = FALSE
MatchIdle ==
  content = <<>> /\ term = <<>> /\ contextLines = 0 /\ matches = <<>> /\ found = FALSE
BatchIdle ==
  /\ pc = "idle" /\ searchTerm = <<>> /\ records = 0 /\ limit = 0
  /\ limits = NoLimits /\ processingCount = 0 /\ processed = 0 /\ errors = 0
  /\ apiExhausted = FALSE /\ allCredentials = <<>> /\ previewCalls = <<>>
  /\ outputFile = NoFile /\ console = <<>>
WrapIdle == wrapText = <<>> /\ maxWidth = 0 /\ wrapped = <<>> /\ wrapDone = FALSE
PreviewIdle == maxMatches = 0 /\ columns = 0 /\ output = <<>> /\ formatted = FALSE
DomainIdle == candidate = <<>> /\ verdict = FALSE /\ classified = FALSE
NoSizing == [contextLines |-> 0, maxMatches |-> 0]
SizingIdle == terminalRows = 0 /\ sizing = NoSizing /\ sized = FALSE
NoFlow ==
  nRecords = 0 /\ nChoices = 0 /\ selection = <<>> /\ cursor = 0 /\ downloaded = <<>>
NoSession ==
  currentPage = 0 /\ preloadedContent = {} /\ inFlight = [p \in 0..(MaxRecords - 1) |-> 0]
MainIdle ==
  /\ mpc = "idle" /\ apiKey = <<>> /\ query = <<>> /\ searches = 0
  /\ NoFlow /\ NoSession
  /\ event = "none" /\ eventPage = 0 /\ said = <<>> /\ written = <<>>
RestIdle == WrapIdle /\ PreviewIdle /\ DomainIdle /\ SizingIdle /\ MainIdle

InitExtract ==
  /\ text \in ExtractTexts
  /\ domain = Dom
  /\ credentials = <<>>
  /\ extracted = FALSE
  /\ MatchIdle /\ BatchIdle /\ RestIdle

\* One call of extractCredentials(text, domain).
ExtractCall ==
  /\ ~extracted
  /\ credentials' = ExtractCredentials(text, domain)
  /\ extracted' = TRUE
  /\ UNCHANGED <<text, domain, matchVars, batchVars, restVars>>

NextExtract == ExtractCall

SpecExtract == InitExtract /\ [][NextExtract]_vars

----------------------------------------------------------------------------
(* findContextInFile *)

MaxContentLen == 4
MaxTermLen == 2
MaxContext == 2

Max(a, b) == IF a >= b THEN a ELSE b
Min2(a, b) == IF a <= b THEN a ELSE b

\* String.prototype.split('\n')
RECURSIVE SplitLines(_)
SplitLines(s) ==
  LET nl == {i \in DOMAIN s : s[i] = "\n"}
  IN IF nl = {} THEN <<s>>
     ELSE <<SubSeq(s, 1, Min(nl) - 1)>> \o SplitLines(SubSeq(s, Min(nl) + 1, Len(s)))

\* String.prototype.includes
Includes(hay, needle) ==
  \E i \in 0..(Len(hay) - Len(needle)) : SubSeq(hay, i + 1, i + Len(needle)) = needle

\* lines[i].toLowerCase().includes(searchLower), without the lower-casing of the line
LineIncludesCaseSensitive(line, searchLower) == Includes(line, searchLower)

\* lines[i].toLowerCase().includes(searchLower)
LineIncludes(line, searchLower) == Includes(ToLowerCase(line), searchLower)

\* The for loop with matchLine taken as contextLines, as if no window were clipped
\* at the start of the file.
RECURSIVE ScanLinesUnclipped(_, _, _, _)
ScanLinesUnclipped(lines, searchLower, k, i) ==
  IF i >= Len(lines) THEN <<>>
  ELSE LET start == Max(0, i - k)
           end == Min2(Len(lines), i + k + 1)
           window == [lineNumber |-> i + 1,
                      context |-> SubSeq(lines, start + 1, end),
                      matchLine |-> k]
       IN (IF LineIncludes(lines[i + 1], searchLower) THEN <<window>> ELSE <<>>)
          \o ScanLinesUnclipped(lines, searchLower, k, i + 1)

\* The for loop of findContextInFile from index i (0-based, as in the code) on.
RECURSIVE ScanLines(_, _, _, _)
ScanLines(lines, searchLower, k, i) ==
  IF i >= Len(lines) THEN <<>>
  ELSE LET start == Max(0, i - k)
           end == Min2(Len(lines), i + k + 1)
           window == [lineNumber |-> i + 1,
                      context |-> SubSeq(lines, start + 1, end),
                      matchLine |-> i - start]
       IN (IF LineIncludes(lines[i + 1], searchLower) THEN <<window>> ELSE <<>>)
          \o ScanLines(lines, searchLower, k, i + 1)

FindContextInFile(cont, st, k) == ScanLines(SplitLines(cont), ToLowerCase(st), k, 0)

SeqsUpTo(S, n) == UNION {[1..k -> S] : k \in 0..n}

Contents == SeqsUpTo({"a", "b", "B", "\n"}, MaxContentLen)
Terms == SeqsUpTo({"a", "B"}, MaxTermLen)
\* The example of the specification: "ab\nab\n" searched for "ab".
ExampleContent == <<"a", "b", "\n", "a", "b", "\n">>
ExampleTerm == <<"a", "b">>

InitMatch ==
  /\ \E input \in (Contents \X Terms) \cup {<<ExampleContent, ExampleTerm>>} :
       content = input[1] /\ term = input[2]
  /\ contextLines \in 0..MaxContext
  /\ matches = <<>>
  /\ found = FALSE
  /\ ExtractIdle /\ BatchIdle /\ RestIdle

\* One call of findContextInFile(content, term, contextLines).
FindCall ==
  /\ ~found
  /\ matches' = FindContextInFile(content, term, contextLines)
  /\ found' = TRUE
  /\ UNCHANGED <<content, term, contextLines, extractVars, batchVars, restVars>>

NextMatch == FindCall

SpecMatch == InitMatch /\ [][NextMatch]_vars

----------------------------------------------------------------------------
(* generateCombolist *)

\* searchTerm.replace(/^https?:\/\//, '').split('/')[0]
StartsWith(s, lit) == Len(s) >= Len(lit) /\ SubSeq(s, 1, Len(lit)) = lit
StripProtocol(s) ==
  IF StartsWith(s, Https) THEN SubSeq(s, Len(Https) + 1, Len(s))
  ELSE IF StartsWith(s, <<"h","t","t","p",":","/","/">>) THEN SubSeq(s, 8, Len(s))
  ELSE s
DomainName(st) ==
  LET cleaned == StripProtocol(st)
  IN SubSeq(cleaned, 1, RunEnd(cleaned, 1, "/", FALSE) - 1)

\* What getApiLimits can answer: a failure, an answer without a '/file/view' entry,
\* or an entry with Credit (possibly missing) and CreditMax.
LimitResponses ==
  {[kind |-> "error", hasPath |-> FALSE, hasCredit |-> FALSE, Credit |-> 0, CreditMax |-> 0],
   [kind |-> "ok", hasPath |-> FALSE, hasCredit |-> FALSE, Credit |-> 0, CreditMax |-> 0]}
  \cup {[kind |-> "ok", hasPath |-> TRUE, hasCredit |-> TRUE, Credit |-> c, CreditMax |-> m] :
          c \in 0..2, m \in {0, 2}}
  \cup {[kind |-> "ok", hasPath |-> TRUE, hasCredit |-> FALSE, Credit |-> 0, CreditMax |-> 2]}

\* fileViewLimit.Credit || 0
Credits(resp) == IF resp.hasCredit THEN resp.Credit ELSE 0

\* The abort test with its return forgotten: the batch goes on.
QuotaExhaustedNoReturn(resp) == FALSE

\* fileViewLimit && fileViewLimit.CreditMax > 0, then credits === 0
QuotaExhausted(resp) ==
  resp.kind = "ok" /\ resp.hasPath /\ resp.CreditMax > 0 /\ Credits(resp) = 0

\* What getFilePreview can give for a record: the text of the file ...
PreviewTexts ==
  { Dom \o <<":", "a", ":", "b">>,
    Dom \o <<"/", "x", "|", "a", "|", "b", "\n">> \o Dom \o <<":", "a", ":", "a">>,
    <<"e", ".", "f", ":", "a", ":", "b">> }
\* ... or an error, whose message holds the response status (or is empty).
ErrorMessages ==
  { <<"5", "0", "0">>, <<"4", "0", "3">>, <<"4", "2", "9">>,
    <<"l", "i", "m", "i", "t">>, <<>> }

\* The quota test with '429' forgotten.
IsQuotaErrorWithout429(message) ==
  /\ Len(message) > 0
  /\ \/ Includes(message, <<"4", "0", "3">>)
     \/ Includes(message, <<"l", "i", "m", "i", "t">>)

\* The quota test taking every failure for a quota failure.
IsQuotaErrorAlways(message) == TRUE

\* error.message && (error.message.includes('403') || ... '429' ... 'limit')
IsQuotaError(message) ==
  /\ Len(message) > 0
  /\ \/ Includes(message, <<"4", "0", "3">>)
     \/ Includes(message, <<"4", "2", "9">>)
     \/ Includes(message, <<"l", "i", "m", "i", "t">>)

\* credentials.forEach(cred => allCredentials.add(cred))
RECURSIVE AddAll(_, _)
AddAll(set, creds) ==
  IF creds = <<>> THEN set ELSE AddAll(SetAdd(set, Head(creds)), Tail(creds))

RECURSIVE InsertSorted(_, _)
InsertSorted(sorted, x) ==
  IF sorted = <<>> THEN <<x>>
  ELSE IF StrLess(x, Head(sorted)) THEN <<x>> \o sorted
  ELSE <<Head(sorted)>> \o InsertSorted(Tail(sorted), x)

RECURSIVE SortStrings(_)
SortStrings(arr) ==
  IF arr = <<>> THEN <<>> ELSE InsertSorted(SortStrings(Tail(arr)), Head(arr))

\* Array.from(allCredentials) with the sort forgotten.
CredentialsArrayUnsorted(set) == set

\* Array.from(allCredentials).sort()
CredentialsArray(set) == SortStrings(set)

Say(msg, n) == [msg |-> msg, n |-> n]

InitBatch ==
  /\ pc = "start"
  /\ searchTerm \in {Dom, Https \o Dom \o <<"/", "x">>}
  /\ records \in 1..MaxRecords
  /\ limit \in 0..records
  /\ limits = NoLimits
  /\ processingCount = 0 /\ processed = 0 /\ errors = 0 /\ apiExhausted = FALSE
  /\ allCredentials = <<>> /\ previewCalls = <<>> /\ outputFile = NoFile
  /\ console = <<>>
  /\ ExtractIdle /\ MatchIdle /\ RestIdle

\* From the call to the end of the quota check: the records to process are cut to
\* the limit (0 stands for null), getApiLimits answers, and the batch either
\* returns at once or enters the loop.
CheckLimits ==
  /\ pc = "start"
  /\ \E resp \in LimitResponses :
       LET count == IF limit # 0 THEN Min2(limit, records) ELSE records
           warn == /\ resp.kind = "ok" /\ resp.hasPath /\ resp.CreditMax > 0
                   /\ Credits(resp) < count
       IN /\ limits' = resp
          /\ processingCount' = count
          /\ IF QuotaExhausted(resp)
               THEN /\ console' = Append(console, Say("exhausted", 0))
                    /\ pc' = "done"
               ELSE /\ console' =
                         IF resp.kind = "error" THEN Append(console, Say("limits unknown", 0))
                         ELSE IF warn THEN Append(console, Say("warning", Credits(resp)))
                         ELSE console
                    /\ pc' = IF count > 0 THEN "loop" ELSE "report"
  /\ UNCHANGED <<searchTerm, records, limit, processed, errors, apiExhausted,
                 allCredentials, previewCalls, outputFile, extractVars, matchVars, restVars>>

\* One turn of the loop whose getFilePreview succeeds.
PreviewSucceeds ==
  /\ pc = "loop"
  /\ processed < processingCount
  /\ \E body \in PreviewTexts :
       /\ previewCalls' = Append(previewCalls,
                                 [record |-> processed + 1, ok |-> TRUE, body |-> body])
       /\ allCredentials' =
            AddAll(allCredentials, ExtractCredentials(body, DomainName(searchTerm)))
  /\ processed' = processed + 1
  /\ pc' = IF processed' < processingCount THEN "loop" ELSE "report"
  /\ UNCHANGED <<searchTerm, records, limit, limits, processingCount, errors,
                 apiExhausted, outputFile, console, extractVars, matchVars, restVars>>

\* One turn of the loop whose getFilePreview throws.
PreviewFails ==
  /\ pc = "loop"
  /\ processed < processingCount
  /\ \E message \in ErrorMessages :
       /\ previewCalls' = Append(previewCalls,
                                 [record |-> processed + 1, ok |-> FALSE, body |-> message])
       /\ IF IsQuotaError(message)
            THEN /\ apiExhausted' = TRUE
                 /\ console' = Append(console, Say("stopped", (processed + 1) - 1))
                 /\ pc' = "report"
            ELSE /\ UNCHANGED <<apiExhausted, console>>
                 /\ pc' = IF processed + 1 < processingCount THEN "loop" ELSE "report"
  /\ processed' = processed + 1
  /\ errors' = errors + 1
  /\ UNCHANGED <<searchTerm, records, limit, limits, processingCount, allCredentials,
                 outputFile, extractVars, matchVars, restVars>>

\* Finish returning without a file once the quota stopped the batch.
FinishWithoutFileWhenExhausted ==
  /\ pc = "report"
  /\ LET credentialsArray == SortStrings(allCredentials)
     IN IF Len(credentialsArray) = 0 \/ apiExhausted
          THEN /\ console' = Append(console, Say("no credentials", 0))
               /\ UNCHANGED outputFile
          ELSE /\ outputFile' = [written |-> TRUE,
                                 name |-> DomainName(searchTerm) \o <<".", "t", "x", "t">>,
                                 data |-> Join(credentialsArray) \o <<"\n">>]
               /\ console' = console
                             \o <<Say("generated", Len(credentialsArray))>>
                             \o (IF errors > 0 THEN <<Say("could not process", errors)>>
                                 ELSE <<>>)
  /\ pc' = "done"
  /\ UNCHANGED <<searchTerm, records, limit, limits, processingCount, processed, errors,
                 apiExhausted, allCredentials, previewCalls, extractVars, matchVars, restVars>>

\* After the loop: the summary, the sort and the write.
Finish ==
  /\ pc = "report"
  /\ LET only == IF apiExhausted /\ processed < processingCount
                   THEN <<Say("only", processed - errors)>> ELSE <<>>
         credentialsArray == CredentialsArray(allCredentials)
     IN IF Len(credentialsArray) = 0
          THEN /\ console' = console \o only \o <<Say("no credentials", 0)>>
               /\ UNCHANGED outputFile
          ELSE /\ outputFile' = [written |-> TRUE,
                                 name |-> DomainName(searchTerm) \o <<".", "t", "x", "t">>,
                                 data |-> Join(credentialsArray) \o <<"\n">>]
               /\ console' = console \o only
                             \o <<Say("generated", Len(credentialsArray))>>
                             \o (IF errors > 0 THEN <<Say("could not process", errors)>>
                                 ELSE <<>>)
  /\ pc' = "done"
  /\ UNCHANGED <<searchTerm, records, limit, limits, processingCount, processed, errors,
                 apiExhausted, allCredentials, previewCalls, extractVars, matchVars, restVars>>

Next == CheckLimits \/ PreviewSucceeds \/ PreviewFails \/ Finish

Spec == InitBatch /\ [][Next]_vars

----------------------------------------------------------------------------
(* stripAnsiCodes and wrapLine *)

MaxFrags == 4
MaxWidth == 5

\* The escape character U+001B, one element of a text.
Esc == "ESC"
AnsiParams == Range(Digits) \cup {";"}

\* text.replace(/\u001b\[[0-9;]*m/g, ''): at an escape character followed by "[",
\* the run of digits and ";" is taken whole, and the code is removed when "m"
\* follows the run; any other character stays.
RECURSIVE StripAnsiCodes(_)
StripAnsiCodes(s) ==
  IF s = <<>> THEN <<>>
  ELSE LET stops == {j \in 3..Len(s) : s[j] \notin AnsiParams}
           m == IF stops = {} THEN Len(s) + 1 ELSE Min(stops)
       IN IF Head(s) = Esc /\ Len(s) >= 2 /\ s[2] = "[" /\ m <= Len(s) /\ s[m] = "m"
            THEN StripAnsiCodes(SubSeq(s, m + 1, Len(s)))
            ELSE <<Head(s)>> \o StripAnsiCodes(Tail(s))

\* text.split(/\s+/): the white space between the words is not kept.
RECURSIVE SplitSpacesUncaptured(_)
SplitSpacesUncaptured(s) ==
  LET spaces == {i \in DOMAIN s : IsSpace(s[i])}
  IN IF spaces = {} THEN <<s>>
     ELSE LET b == Min(spaces)
              after == {j \in b..Len(s) : ~IsSpace(s[j])}
              e == IF after = {} THEN Len(s) + 1 ELSE Min(after)
          IN <<SubSeq(s, 1, b - 1)>> \o SplitSpacesUncaptured(SubSeq(s, e, Len(s)))

\* text.split(/(\s{3,}|\s+)/): the text before each run of white space, then the
\* run itself (the capture group), and at last the text after the last run; the
\* pieces at the two ends are empty when the text starts or ends with white space.
RECURSIVE SplitSpaces(_)
SplitSpaces(s) ==
  LET spaces == {i \in DOMAIN s : IsSpace(s[i])}
  IN IF spaces = {} THEN <<s>>
     ELSE LET b == Min(spaces)
              after == {j \in b..Len(s) : ~IsSpace(s[j])}
              e == IF after = {} THEN Len(s) + 1 ELSE Min(after)
          IN <<SubSeq(s, 1, b - 1), SubSeq(s, b, e - 1)>>
             \o SplitSpaces(SubSeq(s, e, Len(s)))

\* The test of the column gap answering no: a gap is handled as a word.
IsWideGapNever(part) == FALSE

\* part.match(/^\s{3,}$/)
IsWideGap(part) == Len(part) >= 3 /\ \A i \in DOMAIN part : IsSpace(part[i])

\* The for loop of wrapLine over the parts still to come, and the flush after it.
RECURSIVE WrapParts(_, _, _, _)
WrapParts(parts, currentLine, lines, w) ==
  IF parts = <<>>
    THEN IF Len(Trim(currentLine)) > 0 THEN Append(lines, TrimEnd(currentLine)) ELSE lines
  ELSE LET part == Head(parts)
           partLength == Len(StripAnsiCodes(part))
           currentLength == Len(StripAnsiCodes(currentLine))
       IN IF currentLength + partLength > w /\ Len(currentLine) > 0
            THEN IF IsWideGap(part)
                   THEN WrapParts(Tail(parts), <<>>, Append(lines, TrimEnd(currentLine)), w)
                   ELSE WrapParts(Tail(parts), part, Append(lines, TrimEnd(currentLine)), w)
            ELSE WrapParts(Tail(parts), currentLine \o part, lines, w)

\* wrapLine with the width test forgotten: the text comes back as one line.
WrapLineUnbroken(txt, w) == IF Len(Trim(txt)) > 0 THEN <<TrimEnd(txt)>> ELSE <<>>

WrapLine(txt, w) == WrapParts(SplitSpaces(txt), <<>>, <<>>, w)

\* A style code as chalk writes it.
Sgr(n) == <<Esc, "[">> \o n \o <<"m">>

\* The pieces the texts to wrap are built of: words, a single space, a column
\* gap and a style code.
WrapFrags == {<<"a">>, <<"b", "b">>, <<" ">>, <<" ", " ", " ">>, Sgr(<<"7">>)}

RECURSIVE Concat(_)
Concat(ss) == IF ss = <<>> THEN <<>> ELSE Head(ss) \o Concat(Tail(ss))

\* Three columns: "a   a   bb".
ThreeColumns == <<"a", " ", " ", " ", "a", " ", " ", " ", "b", "b">>

WrapTexts == {Concat(fs) : fs \in SeqsUpTo(WrapFrags, MaxFrags)} \cup {ThreeColumns}

InitWrap ==
  /\ wrapText \in WrapTexts
  /\ maxWidth \in 0..MaxWidth
  /\ wrapped = <<>>
  /\ wrapDone = FALSE
  /\ PreviewIdle /\ DomainIdle /\ SizingIdle /\ MainIdle
  /\ ExtractIdle /\ MatchIdle /\ BatchIdle

\* One call of wrapLine(text, maxWidth).
WrapCall ==
  /\ ~wrapDone
  /\ wrapped' = WrapLine(wrapText, maxWidth)
  /\ wrapDone' = TRUE
  /\ UNCHANGED <<wrapText, maxWidth, previewVars, domainVars, sizingVars, mainVars, extractVars,
                 matchVars,
                 batchVars>>

NextWrap == WrapCall

SpecWrap == InitWrap /\ [][NextWrap]_vars

----------------------------------------------------------------------------
(* normalizeSpaces and formatPreview *)

MaxPreviewLines == 2
MaxShown == 2

LineNumWidth == 8
LineNumDigits == 6
DefaultColumns == 80

\* chalk.green, chalk.gray, chalk.yellow and chalk.bgYellow.black around a text
\* without line feeds: the opening codes, the text, the closing codes; an empty
\* text comes back empty.
Green(s) == IF s = <<>> THEN s ELSE Sgr(<<"3", "2">>) \o s \o Sgr(<<"3", "9">>)
Gray(s) == IF s = <<>> THEN s ELSE Sgr(<<"9", "0">>) \o s \o Sgr(<<"3", "9">>)
Yellow(s) == IF s = <<>> THEN s ELSE Sgr(<<"3", "3">>) \o s \o Sgr(<<"3", "9">>)
HighlightOpen == Sgr(<<"4", "3">>) \o Sgr(<<"3", "0">>)
HighlightClose == Sgr(<<"3", "9">>) \o Sgr(<<"4", "9">>)
BgYellowBlack(s) == IF s = <<>> THEN s ELSE HighlightOpen \o s \o HighlightClose

\* line.replace(/\s{3,}/g, '   ')
RECURSIVE NormalizeSpaces(_)
NormalizeSpaces(s) ==
  IF s = <<>> THEN <<>>
  ELSE LET after == {j \in DOMAIN s : ~IsSpace(s[j])}
           e == IF after = {} THEN Len(s) + 1 ELSE Min(after)
       IN IF e - 1 >= 3
            THEN <<" ", " ", " ">> \o NormalizeSpaces(SubSeq(s, e, Len(s)))
          ELSE IF e - 1 >= 1
            THEN SubSeq(s, 1, e - 1) \o NormalizeSpaces(SubSeq(s, e, Len(s)))
          ELSE <<Head(s)>> \o NormalizeSpaces(Tail(s))

\* Number.prototype.toString of a number that is not negative
RECURSIVE NumberToString(_)
NumberToString(n) ==
  IF n < 10 THEN <<Digits[n + 1]>> ELSE NumberToString(n \div 10) \o <<Digits[(n % 10) + 1]>>

Spaces(n) == [i \in 1..n |-> " "]

\* String.prototype.padStart(n)
PadStart(s, n) == IF Len(s) >= n THEN s ELSE Spaces(n - Len(s)) \o s

\* String.prototype.substring(0, end)
Substring0(s, end) == SubSeq(s, 1, Max(0, Min2(end, Len(s))))

\* String.prototype.lastIndexOf(' '): 0-based, -1 when there is no space
LastIndexOfSpace(s) ==
  LET at == {i \in DOMAIN s : s[i] = " "}
  IN IF at = {} THEN 0 - 1 ELSE (CHOOSE i \in at : \A j \in at : j <= i) - 1

\* line.replace(new RegExp('(' + escaped term + ')', 'gi'), m => chalk.bgYellow.black(m))
\* from position i of the line on: the leftmost occurrences, one after the other.
RECURSIVE HighlightFrom(_, _, _)
HighlightFrom(s, i, atoms) ==
  IF i > Len(s) THEN <<>>
  ELSE IF atoms # <<>> /\ AtomsAt(s, i, atoms)
    THEN BgYellowBlack(SubSeq(s, i, i + Len(atoms) - 1))
         \o HighlightFrom(s, i + Len(atoms), atoms)
  ELSE <<s[i]>> \o HighlightFrom(s, i + 1, atoms)

Highlight(s, st) == HighlightFrom(s, 1, PatternAtoms(EscapeRegExp(st)))

\* process.stdout.columns || 80; 0 stands for a stream without columns.
TerminalWidth(cols) == IF cols = 0 THEN DefaultColumns ELSE cols
MaxLineWidth(cols) == TerminalWidth(cols) - LineNumWidth - 2

\* The rows of the match line of window w: the highlighted line, wrapped, each
\* segment behind the marked line number or behind the blank gutter.
MatchRows(w, i, lineNumStr, s, st, width) ==
  LET highlighted == Highlight(s, st)
      segs == WrapLine(highlighted, width)
  IN [j \in 1..Len(segs) |->
        [window |-> w, index |-> i, kind |-> "match",
         prefix |-> IF j = 1 THEN Green(<<">">> \o lineNumStr \o <<":", " ">>)
                    ELSE Green(Spaces(LineNumWidth)),
         body |-> segs[j]]]

\* The row of a context line: whole when it fits, else cut with an ellipsis.
ContextRow(w, i, lineNumStr, s, width) ==
  LET truncated == Substring0(s, width - 3)
      lastSpace == LastIndexOfSpace(truncated)
      truncateAt == IF 10 * lastSpace > 7 * width THEN lastSpace ELSE width - 3
      finalLine == Substring0(s, truncateAt) \o Gray(<<".", ".", ".">>)
  IN [window |-> w, index |-> i, kind |-> "context",
      prefix |-> Gray(<<" ">> \o lineNumStr \o <<":", " ">>),
      body |-> IF Len(StripAnsiCodes(s)) > width THEN finalLine ELSE s]

\* The inner loop of formatPreview over the context of one window, from index i
\* (0-based, as in the code) on.
RECURSIVE WindowRows(_, _, _, _, _)
WindowRows(w, match, i, st, width) ==
  IF i >= Len(match.context) THEN <<>>
  ELSE LET s == NormalizeSpaces(match.context[i + 1])
           lineNum == match.lineNumber - match.matchLine + i
           lineNumStr == PadStart(NumberToString(lineNum), LineNumDigits)
       IN (IF i = match.matchLine
             THEN MatchRows(w, i, lineNumStr, s, st, width)
             ELSE <<ContextRow(w, i, lineNumStr, s, width)>>)
          \o WindowRows(w, match, i + 1, st, width)

\* displayMatches without the slice: every window is rendered.
DisplayMatchesAll(ms, mm) == ms

\* matches.slice(0, maxMatches), for maxMatches >= 0
DisplayMatches(ms, mm) == SubSeq(ms, 1, Min2(Len(ms), mm))

RECURSIVE DisplayRows(_, _, _, _)
DisplayRows(shown, w, st, width) ==
  IF w > Len(shown) THEN <<>>
  ELSE WindowRows(w, shown[w], 0, st, width) \o DisplayRows(shown, w + 1, st, width)

\* The two fixed messages; a message is one element of the row it stands in.
NoMatchesRow ==
  [window |-> 0, index |-> 0, kind |-> "none", prefix |-> <<>>,
   body |-> Yellow(<<"No matches found in file content.">>)]
MoreRow(n) ==
  [window |-> 0, index |-> 0, kind |-> "more", prefix |-> <<>>,
   body |-> Yellow(<<"... and ">> \o NumberToString(n) \o <<" more match(es)">>)]

\* formatPreview(matches, searchTerm, maxMatches) on a terminal of cols columns:
\* the rows of the returned text, each the prefix and the body of one output line.
FormatPreview(ms, st, mm, cols) ==
  IF Len(ms) = 0 THEN <<NoMatchesRow>>
  ELSE DisplayRows(DisplayMatches(ms, mm), 1, st, MaxLineWidth(cols))
       \o (IF Len(ms) > mm THEN <<MoreRow(Len(ms) - mm)>> ELSE <<>>)

\* The lines the previewed files are built of, and the terms searched in them.
PreviewLines ==
  { <<"a", "b">>,
    <<"x", "A", "B", " ", "a", "b">>,
    <<"a", ".", "b">>,
    <<"a", " ", " ", " ", " ", "b">>,
    <<"x">>,
    <<"x", "x", "x", "x", " ", "x", "x">> }
PreviewTerms ==
  { <<"a", "b">>, <<"A", "b">>, <<".">>, <<"a", " ", " ", " ", " ", "b">> }

\* A line of sixteen characters whose only space stands at index 10, and one
\* whose only space stands at index 2.
LateSpaceLine == [i \in 1..16 |-> IF i = 11 THEN " " ELSE "x"]
EarlySpaceLine == [i \in 1..16 |-> IF i = 3 THEN " " ELSE "x"]

\* Files of three lines: two matching lines before another line, and a matching
\* line between the two long lines.
LongerFiles ==
  { Join(<< <<"a", "b">>, <<"a", "b">>, <<"x">> >>),
    Join(<<LateSpaceLine, <<"a", "b">>, EarlySpaceLine>>) }

PreviewContents ==
  {Join(ls) : ls \in SeqsUpTo(PreviewLines, MaxPreviewLines) \ {<<>>}} \cup LongerFiles

\* Terminals without columns, terminals leaving MaxWidth and twice MaxWidth
\* columns to the text, a terminal of 12 columns and one of 24.
Columns ==
  {0, LineNumWidth + 2 + MaxWidth, LineNumWidth + 2 + 2 * MaxWidth,
   LineNumWidth + 4, 3 * LineNumWidth}

InitPreview ==
  /\ content \in PreviewContents
  /\ term \in PreviewTerms
  /\ contextLines \in 0..MaxContext
  /\ matches = <<>>
  /\ found = FALSE
  /\ maxMatches \in 0..MaxShown
  /\ columns \in Columns
  /\ output = <<>>
  /\ formatted = FALSE
  /\ WrapIdle /\ DomainIdle /\ SizingIdle /\ MainIdle
  /\ ExtractIdle /\ BatchIdle

\* One call of formatPreview(matches, searchTerm, maxMatches) on what
\* findContextInFile returned.
FormatCall ==
  /\ found
  /\ ~formatted
  /\ output' = FormatPreview(matches, term, maxMatches, columns)
  /\ formatted' = TRUE
  /\ UNCHANGED <<maxMatches, columns, wrapVars, domainVars, sizingVars, mainVars, extractVars,
                 matchVars,
                 batchVars>>

NextPreview == FindCall \/ FormatCall

SpecPreview == InitPreview /\ [][NextPreview]_vars

----------------------------------------------------------------------------
(* isDomain *)

MaxDomainLen == 5

IsAlpha(c) == c \in Range(Lowers) \cup Range(Uppers)
IsAlnum(c) == IsAlpha(c) \/ c \in Range(Digits)

\* The test with the top-level domain taken up to the end of the name
\* (a '$' after [a-zA-Z]{2,}).
IsDomainAnchored(s) ==
  LET cleaned == DomainName(s)
      d == RunEnd(cleaned, 1, ".", FALSE)
  IN /\ d >= 2 /\ d + 2 <= Len(cleaned)
     /\ IsAlnum(cleaned[1])
     /\ \A i \in 2..(d - 1) : IsAlnum(cleaned[i]) \/ cleaned[i] = "-"
     /\ \A i \in (d + 1)..Len(cleaned) : IsAlpha(cleaned[i])

\* /^[a-zA-Z0-9][a-zA-Z0-9-]*[a-zA-Z0-9]*\.[a-zA-Z]{2,}/.test(cleaned): none of
\* the three classes holds '.', so the '.' of the pattern is the first one of the
\* name; before it stand a letter or digit and then letters, digits and hyphens,
\* after it two letters; the pattern has no end anchor, so what follows is free.
IsDomain(s) ==
  LET cleaned == DomainName(s)
      d == RunEnd(cleaned, 1, ".", FALSE)
  IN /\ d >= 2 /\ d + 2 <= Len(cleaned)
     /\ IsAlnum(cleaned[1])
     /\ \A i \in 2..(d - 1) : IsAlnum(cleaned[i]) \/ cleaned[i] = "-"
     /\ IsAlpha(cleaned[d + 1]) /\ IsAlpha(cleaned[d + 2])

\* The search terms to classify: the examples of the documentation, and every
\* short name over a small alphabet, bare and behind a protocol.
ExampleCom ==
  <<"e", "x", "a", "m", "p", "l", "e", ".", "c", "o", "m">>
ExampleUrl ==
  <<"h", "t", "t", "p", "s", ":", "/", "/", "e", "x", "a", "m", "p", "l", "e", ".", "c", "o", "m", "/", "p", "a", "t", "h">>
ExampleEmail ==
  <<"u", "s", "e", "r", "@", "e", "x", "a", "m", "p", "l", "e", ".", "c", "o", "m">>
ExampleUuid ==
  <<"1", "d", "6", "9", "f", "4", "2", "e", "-", "5", "b", "1", "c", "-", "4", "a", "2", "e", "-", "9", "f", "3", "d", "-", "0", "c", "8", "e", "7", "a", "6", "b", "5", "d", "4", "f">>
DomainExamples ==
  { ExampleCom, ExampleUrl, ExampleEmail, ExampleUuid,
    <<"s", "u", "b", ".", "e", "x", "a", "m", "p", "l", "e", ".", "c", "o", "m">>,
    <<"e", "x", "a", "m", "p", "l", "e", ".", "c", "o", "m", ".", "1", "2", "3">> }
Protocols == {<<>>, <<"h","t","t","p",":","/","/">>, Https}
DomainCandidates ==
  DomainExamples
  \cup {pr \o nm : pr \in Protocols, nm \in SeqsUpTo({"a", "1", "-", ".", "/", "@"}, MaxDomainLen)}

InitDomain ==
  /\ candidate \in DomainCandidates
  /\ verdict = FALSE
  /\ classified = FALSE
  /\ WrapIdle /\ PreviewIdle /\ SizingIdle /\ MainIdle
  /\ ExtractIdle /\ MatchIdle /\ BatchIdle

\* One call of isDomain(searchTerm).
ClassifyCall ==
  /\ ~classified
  /\ verdict' = IsDomain(candidate)
  /\ classified' = TRUE
  /\ UNCHANGED <<candidate, wrapVars, previewVars, sizingVars, mainVars, extractVars, matchVars,
                 batchVars>>

NextDomain == ClassifyCall

SpecDomain == InitDomain /\ [][NextDomain]_vars

----------------------------------------------------------------------------
(* The sizing of a preview to the terminal height *)

MaxRows == 60

DefaultRows == 24
HeaderLines == 4
NavigationLines == 6
BufferLines == 3
DefaultContext == 3

\* process.stdout.rows || 24; 0 stands for a stream without rows.
TerminalHeight(rows) == IF rows = 0 THEN DefaultRows ELSE rows

\* Math.max(3, terminalHeight - headerLines - navigationLines - bufferLines)
AvailableLines(rows) ==
  Max(3, TerminalHeight(rows) - HeaderLines - NavigationLines - BufferLines)

\* The estimate without the wrapping multiplier: one row for each line.
EstimatedLinesUnwrapped(k) == 2 * k + 1

\* Math.ceil((contextLines * 2 + 1) * 1.5)
EstimatedLinesPerMatch(k) == (3 * (2 * k + 1) + 1) \div 2

\* Math.max(1, Math.floor(availableLines / estimate of k))
MatchesThatFit(avail, k) == Max(1, avail \div EstimatedLinesPerMatch(k))

\* Math.max(1, Math.floor((availableLines / 1.5 - 1) / 2)), which is the floor
\* of (2 availableLines - 3) / 6.
ReducedContext(avail) == Max(1, (2 * avail - 3) \div 6)

\* contextLines and maxMatches as the preview loop chooses them for a terminal
\* of the given number of rows.
Sizing(rows) ==
  LET avail == AvailableLines(rows)
  IN IF EstimatedLinesPerMatch(DefaultContext) > avail
       THEN [contextLines |-> ReducedContext(avail), maxMatches |-> 1]
     ELSE IF avail >= 15
       THEN [contextLines |-> 4, maxMatches |-> MatchesThatFit(avail, 4)]
     ELSE IF avail >= 10
       THEN [contextLines |-> 3, maxMatches |-> MatchesThatFit(avail, 3)]
     ELSE [contextLines |-> DefaultContext,
           maxMatches |-> MatchesThatFit(avail, DefaultContext)]

InitSizing ==
  /\ terminalRows \in 0..MaxRows
  /\ sizing = NoSizing
  /\ sized = FALSE
  /\ WrapIdle /\ PreviewIdle /\ DomainIdle /\ MainIdle
  /\ ExtractIdle /\ MatchIdle /\ BatchIdle

\* One pass through the sizing code of the preview loop.
SizeCall ==
  /\ ~sized
  /\ sizing' = Sizing(terminalRows)
  /\ sized' = TRUE
  /\ UNCHANGED <<terminalRows, wrapVars, previewVars, domainVars, mainVars, extractVars,
                 matchVars, batchVars>>

NextSizing == SizeCall

SpecSizing == InitSizing /\ [][NextSizing]_vars

----------------------------------------------------------------------------
(* The interactive loop of main and its preview session *)

MaxInFlight == 2

\* The page indices of a preview session, and the look-ahead fetches in flight
\* for each of them.
Pages == 0..(MaxRecords - 1)
NoFlights == [p \in Pages |-> 0]
RECURSIVE SumUpTo(_, _)
SumUpTo(f, n) == IF n < 0 THEN 0 ELSE f[n] + SumUpTo(f, n - 1)
InFlightTotal(f) == SumUpTo(f, MaxRecords - 1)

\* INTELX_API_KEY as the .env file gives it at the start, what the user types at
\* the key prompt, the [query] argument and what the user types at the query
\* prompt; both prompts refuse an input that is empty after trimming.
StoredKeys == {<<>>, <<"k">>}
KeyInputs == {<<"k">>, <<" ", "k", " ">>}
Arguments == {<<>>, Dom, <<"q">>}
QueryInputs == {Dom, <<" ", "q">>}

\* The numbers of S in ascending order: a checkbox prompt answers in the order
\* of its choices.
RECURSIVE Ascending(_)
Ascending(S) == IF S = {} THEN <<>> ELSE <<Min(S)>> \o Ascending(S \ {Min(S)})

\* Where main waits for the user, and where it is inside the preview session.
PromptPoints == {"menu", "keyPrompt", "limitsPause", "queryPrompt", "actionPrompt",
                 "pagePrompt", "selectPrompt", "treeRecordPrompt", "limitPrompt"}
SessionPoints == {"pageFetch", "pagePrompt", "pageDownload"}

\* The catch block with its reset forgotten: the search term stays.
CaughtTermKept(q) == q

\* searchTerm = null in the catch block of the loop
CaughtTerm(q) == <<>>

\* The iteration with its key test forgotten: searchBySystemId is always called.
SearchAlways(q, key, msgs, n) ==
  /\ mpc' = "search" /\ query' = q /\ searches' = n
  /\ said' = msgs \o <<"Searching">>

\* An iteration with a search term, from the key test to the first await: without
\* a key the term is dropped and the next iteration shows the menu, with a key
\* searchBySystemId is called; n counts the searches made for this input.
SearchOrRefuse(q, key, msgs, n) ==
  IF key = <<>>
    THEN /\ mpc' = "menu" /\ query' = <<>> /\ searches' = 0
         /\ said' = msgs \o <<"API key not set">>
    ELSE /\ mpc' = "search" /\ query' = q /\ searches' = n
         /\ said' = msgs \o <<"Searching">>

\* The next iteration of while (true), the search term being q, up to its first
\* await: the menu when q is null or empty, else the search.
LoopAgain(q, key, msgs) ==
  IF q = <<>>
    THEN mpc' = "menu" /\ query' = <<>> /\ searches' = 0 /\ said' = msgs
    ELSE SearchOrRefuse(q, key, msgs, searches + 1)

\* What an iteration declared is gone with it.
ClearFlow ==
  /\ nRecords' = 0 /\ nChoices' = 0 /\ selection' = <<>> /\ cursor' = 0
  /\ downloaded' = <<>>
  /\ currentPage' = 0 /\ preloadedContent' = {} /\ inFlight' = NoFlights

\* continue
Continue(q, key, msgs) == LoopAgain(q, key, msgs) /\ ClearFlow

Note(ev, p) == event' = ev /\ eventPage' = p /\ written' = <<>> /\ UNCHANGED pureVars

\* The catch block of the loop for an error that is not ExitPromptError.
Catch(ev) ==
  /\ Continue(CaughtTerm(query), apiKey, <<"Error">>)
  /\ Note(ev, 0)
  /\ UNCHANGED apiKey

InitMain ==
  /\ mpc = "start"
  /\ apiKey \in StoredKeys
  /\ query \in Arguments
  /\ searches = 0
  /\ NoFlow /\ NoSession
  /\ event = "none" /\ eventPage = 0 /\ said = <<>> /\ written = <<>>
  /\ WrapIdle /\ PreviewIdle /\ DomainIdle /\ SizingIdle
  /\ ExtractIdle /\ MatchIdle /\ BatchIdle

\* The first iteration, with the [query] argument as search term.
Launch ==
  /\ mpc = "start"
  /\ Continue(query, apiKey, <<>>)
  /\ Note("launched", 0)
  /\ UNCHANGED apiKey

ChooseSetKey ==
  /\ mpc = "menu"
  /\ mpc' = "keyPrompt"
  /\ said' = <<>>
  /\ Note("setKeyChosen", 0)
  /\ UNCHANGED <<apiKey, query, searches, flowVars, sessionVars>>

\* The key prompt answers: setApiKey writes the .env file, or throws.
KeyEntered ==
  /\ mpc = "keyPrompt"
  /\ \E input \in KeyInputs, saved \in BOOLEAN :
       IF saved
         THEN /\ apiKey' = Trim(input)
              /\ Continue(query, Trim(input), <<"API key saved">>)
              /\ Note("keySaved", 0)
         ELSE Catch("localError")

\* 'API Limits': refused without a key, else getApiLimits is called.
ChooseLimits ==
  /\ mpc = "menu"
  /\ IF apiKey = <<>>
       THEN /\ Continue(query, apiKey, <<"API key not set">>)
            /\ Note("keyMissing", 0)
       ELSE /\ mpc' = "limitsFetch"
            /\ said' = <<"Fetching API limits">>
            /\ Note("limitsRequested", 0)
            /\ UNCHANGED <<query, searches, flowVars, sessionVars>>
  /\ UNCHANGED apiKey

LimitsAnswered ==
  /\ mpc = "limitsFetch"
  /\ \E ok \in BOOLEAN :
       IF ok
         THEN /\ mpc' = "limitsPause"
              /\ said' = <<"API Limits">>
              /\ Note("limitsShown", 0)
              /\ UNCHANGED <<apiKey, query, searches, flowVars, sessionVars>>
         ELSE Catch("apiError")

\* Enter at 'Press Enter to return to menu...'
LimitsClosed ==
  /\ mpc = "limitsPause"
  /\ Continue(query, apiKey, <<>>)
  /\ Note("limitsClosed", 0)
  /\ UNCHANGED apiKey

ChooseSearch ==
  /\ mpc = "menu"
  /\ mpc' = "queryPrompt"
  /\ said' = <<>>
  /\ Note("searchChosen", 0)
  /\ UNCHANGED <<apiKey, query, searches, flowVars, sessionVars>>

\* The query prompt answers: the trimmed input becomes the search term and the
\* iteration goes on to the key test and the search.
QueryEntered ==
  /\ mpc = "queryPrompt"
  /\ \E input \in QueryInputs :
       /\ SearchOrRefuse(Trim(input), apiKey, <<>>, 1)
       /\ IF apiKey = <<>> THEN Note("keyMissing", 0) ELSE Note("searchStarted", 0)
  /\ IF apiKey = <<>> THEN ClearFlow ELSE UNCHANGED <<flowVars, sessionVars>>
  /\ UNCHANGED apiKey

\* searchBySystemId answers; on success getSearchResults is called.
SearchAnswered ==
  /\ mpc = "search"
  /\ \E ok \in BOOLEAN :
       IF ok
         THEN /\ mpc' = "results"
              /\ said' = <<>>
              /\ Note("resultsRequested", 0)
              /\ UNCHANGED <<apiKey, query, searches, flowVars, sessionVars>>
         ELSE Catch("apiError")

\* getSearchResults answers with n records, or fails.
ResultsAnswered ==
  /\ mpc = "results"
  /\ \E ok \in BOOLEAN, n \in 0..MaxRecords :
       IF ~ok THEN Catch("apiError")
       ELSE IF n = 0
         THEN /\ Continue(<<>>, apiKey, <<"No records found">>)
              /\ Note("noRecords", 0)
              /\ UNCHANGED apiKey
       ELSE /\ mpc' = "actionPrompt"
            /\ nRecords' = n
            /\ said' = <<"Found">>
            /\ Note("recordsFound", 0)
            /\ UNCHANGED <<apiKey, query, searches, nChoices, selection, cursor,
                           downloaded, sessionVars>>

\* preloadedContent.has(pageIndex), never finding the page
CachedNever(p, cache) == FALSE

\* preloadedContent.has(pageIndex)
Cached(p, cache) == p \in cache

\* preloadNext(p): nothing for a page past the end or in the cache, else one more
\* getFilePreview in flight for p; nobody awaits it.
PreloadNext(p, cache, flights) ==
  IF p >= nRecords \/ Cached(p, cache) THEN flights ELSE [flights EXCEPT ![p] = @ + 1]

\* After the page is rendered (or its error printed): the look-ahead for the
\* next page, when there is one.
AfterRender(p, cache, flights) ==
  IF p < nRecords - 1 THEN PreloadNext(p + 1, cache, flights) ELSE flights

\* One turn of the preview loop for page p up to its first await: a page in the
\* cache is rendered, the look-ahead is started and the prompt is shown; for any
\* other page getFilePreview is called and awaited.
ShowPage(p, cache, flights, msgs) ==
  /\ currentPage' = p
  /\ preloadedContent' = cache
  /\ IF Cached(p, cache)
       THEN /\ mpc' = "pagePrompt"
            /\ inFlight' = AfterRender(p, cache, flights)
            /\ said' = msgs \o <<"preview">>
       ELSE /\ mpc' = "pageFetch"
            /\ inFlight' = flights
            /\ said' = msgs
  /\ InFlightTotal(inFlight') <= MaxInFlight

\* 'Preview files': a new session with an empty cache, at page 0.
ChoosePreview ==
  /\ mpc = "actionPrompt"
  /\ ShowPage(0, {}, NoFlights, <<>>)
  /\ Note("previewOpened", 0)
  /\ UNCHANGED <<apiKey, query, searches, flowVars>>

\* The awaited getFilePreview of the shown page answers: the content is stored
\* and rendered, or the error is printed; then the look-ahead and the prompt.
PageFetched ==
  /\ mpc = "pageFetch"
  /\ \E ok \in BOOLEAN :
       LET cache == IF ok THEN preloadedContent \cup {currentPage} ELSE preloadedContent
       IN /\ preloadedContent' = cache
          /\ inFlight' = AfterRender(currentPage, cache, inFlight)
          /\ said' = IF ok THEN <<"preview">> ELSE <<"Error loading preview">>
          /\ Note(IF ok THEN "pageFetched" ELSE "pageFetchFailed", currentPage)
  /\ InFlightTotal(inFlight') <= MaxInFlight
  /\ mpc' = "pagePrompt"
  /\ UNCHANGED <<apiKey, query, searches, flowVars, currentPage>>

\* A look-ahead getFilePreview answers while main awaits something else: the
\* content is stored, or the failure is swallowed.
LookaheadDone ==
  /\ mpc \in SessionPoints
  /\ \E p \in Pages, ok \in BOOLEAN :
       /\ inFlight[p] > 0
       /\ inFlight' = [inFlight EXCEPT ![p] = @ - 1]
       /\ preloadedContent' = IF ok THEN preloadedContent \cup {p} ELSE preloadedContent
       /\ Note(IF ok THEN "lookaheadStored" ELSE "lookaheadFailed", p)
  /\ said' = <<>>
  /\ UNCHANGED <<mpc, apiKey, query, searches, flowVars, currentPage>>

\* 'Next' offered on every page, the last one included.
PageNextAlways ==
  /\ mpc = "pagePrompt"
  /\ currentPage < MaxRecords
  /\ ShowPage(currentPage + 1, preloadedContent, inFlight, <<>>)
  /\ Note("next", currentPage + 1)
  /\ UNCHANGED <<apiKey, query, searches, flowVars>>

PageNext ==
  /\ mpc = "pagePrompt"
  /\ currentPage < nRecords - 1
  /\ ShowPage(currentPage + 1, preloadedContent, inFlight, <<>>)
  /\ Note("next", currentPage + 1)
  /\ UNCHANGED <<apiKey, query, searches, flowVars>>

PagePrev ==
  /\ mpc = "pagePrompt"
  /\ currentPage > 0
  /\ ShowPage(currentPage - 1, preloadedContent, inFlight, <<>>)
  /\ Note("prev", currentPage - 1)
  /\ UNCHANGED <<apiKey, query, searches, flowVars>>

\* 'Download this file': downloadFile is called and awaited.
PageDownload ==
  /\ mpc = "pagePrompt"
  /\ mpc' = "pageDownload"
  /\ said' = <<"Downloading">>
  /\ Note("downloadStarted", currentPage)
  /\ UNCHANGED <<apiKey, query, searches, flowVars, sessionVars>>

\* The download answers, its failure passed on to the catch block of the loop.
PageDownloadedUncaught ==
  /\ mpc = "pageDownload"
  /\ \E ok \in BOOLEAN :
       IF ok
         THEN /\ ShowPage(currentPage, preloadedContent, inFlight, <<"Downloaded">>)
              /\ Note("pageDownloaded", currentPage)
              /\ UNCHANGED <<apiKey, query, searches, flowVars>>
         ELSE /\ Continue(<<>>, apiKey, <<"Error">>)
              /\ Note("pageDownloadFailed", currentPage)
              /\ UNCHANGED apiKey

\* The download (and the write of the file) answers: the outcome is printed and
\* the preview loop turns again for the same page.
PageDownloaded ==
  /\ mpc = "pageDownload"
  /\ \E ok \in BOOLEAN :
       /\ ShowPage(currentPage, preloadedContent, inFlight,
                   IF ok THEN <<"Downloaded">> ELSE <<"Error">>)
       /\ Note(IF ok THEN "pageDownloaded" ELSE "pageDownloadFailed", currentPage)
  /\ UNCHANGED <<apiKey, query, searches, flowVars>>

\* 'Back to menu': the look-aheads still in flight answer into a cache nobody
\* reads any more.
PageBack ==
  /\ mpc = "pagePrompt"
  /\ Continue(<<>>, apiKey, <<>>)
  /\ Note("previewLeft", 0)
  /\ UNCHANGED apiKey

\* 'Download files directly from results'
ChooseResults ==
  /\ mpc = "actionPrompt"
  /\ mpc' = "selectPrompt"
  /\ nChoices' = nRecords
  /\ said' = <<>>
  /\ Note("resultsChosen", 0)
  /\ UNCHANGED <<apiKey, query, searches, nRecords, selection, cursor, downloaded,
                 sessionVars>>

\* The checkbox prompt of the results or of the file tree answers.
Selected ==
  /\ mpc = "selectPrompt"
  /\ \E all \in BOOLEAN, picked \in SUBSET (1..nChoices) :
       LET filesToDownload == IF all THEN Ascending(1..nChoices) ELSE Ascending(picked)
       IN IF Len(filesToDownload) = 0
            THEN /\ Continue(<<>>, apiKey, <<"No files selected">>)
                 /\ Note("noneSelected", 0)
            ELSE /\ mpc' = "downloading"
                 /\ selection' = filesToDownload
                 /\ cursor' = 1
                 /\ downloaded' = <<>>
                 /\ said' = <<"Downloading">>
                 /\ Note("downloadsStarted", 0)
                 /\ UNCHANGED <<query, searches, nRecords, nChoices, sessionVars>>
  /\ UNCHANGED apiKey

\* The download loop without its try/catch: a failed download reaches the catch
\* block of the main loop.
DownloadedUncaught ==
  /\ mpc = "downloading"
  /\ \E ok \in BOOLEAN :
       IF ~ok THEN Catch("apiError")
       ELSE /\ mpc' = IF cursor < Len(selection) THEN "downloading" ELSE "zipping"
            /\ cursor' = cursor + 1
            /\ downloaded' = Append(downloaded, selection[cursor])
            /\ said' = <<"ok">>
            /\ Note("fileDownloaded", 0)
            /\ UNCHANGED <<apiKey, query, searches, nRecords, nChoices, selection,
                           sessionVars>>

\* downloadFile of the file at the cursor answers; after the last file createZip
\* is called when something was downloaded.
Downloaded ==
  /\ mpc = "downloading"
  /\ \E ok \in BOOLEAN :
       LET files == IF ok THEN Append(downloaded, selection[cursor]) ELSE downloaded
           msg == IF ok THEN <<"ok">> ELSE <<"Error">>
       IN IF cursor < Len(selection)
            THEN /\ mpc' = "downloading"
                 /\ cursor' = cursor + 1
                 /\ downloaded' = files
                 /\ said' = msg
                 /\ Note(IF ok THEN "fileDownloaded" ELSE "fileFailed", 0)
                 /\ UNCHANGED <<query, searches, nRecords, nChoices, selection, sessionVars>>
          ELSE IF Len(files) > 0
            THEN /\ mpc' = "zipping"
                 /\ cursor' = cursor + 1
                 /\ downloaded' = files
                 /\ said' = msg
                 /\ Note(IF ok THEN "fileDownloaded" ELSE "fileFailed", 0)
                 /\ UNCHANGED <<query, searches, nRecords, nChoices, selection, sessionVars>>
          ELSE /\ Continue(<<>>, apiKey, msg \o <<"No files were successfully downloaded">>)
               /\ Note("nothingDownloaded", 0)
  /\ UNCHANGED apiKey

\* createZip resolves, or rejects with the error of the archiver.
Zipped ==
  /\ mpc = "zipping"
  /\ \E ok \in BOOLEAN :
       IF ok
         THEN /\ Continue(<<>>, apiKey, <<"Downloaded">>)
              /\ event' = "archived" /\ eventPage' = 0
              /\ written' = downloaded
              /\ UNCHANGED pureVars
              /\ UNCHANGED apiKey
         ELSE Catch("localError")

\* From the record to the call of getFileTree; hasIndex tells whether the record
\* has an index file and a bucket.
TreeOfRecord(hasIndex) ==
  IF hasIndex
    THEN /\ mpc' = "treeFetch"
         /\ said' = <<"Fetching file tree">>
         /\ Note("treeRequested", 0)
         /\ UNCHANGED <<query, searches, flowVars, sessionVars>>
    ELSE /\ Continue(<<>>, apiKey, <<"Missing indexfile or bucket">>)
         /\ Note("indexMissing", 0)

\* 'View file tree': with one record its tree is fetched, with several the user
\* is asked for one.
ChooseTree ==
  /\ mpc = "actionPrompt"
  /\ IF nRecords = 1
       THEN \E hasIndex \in BOOLEAN : TreeOfRecord(hasIndex)
       ELSE /\ mpc' = "treeRecordPrompt"
            /\ said' = <<>>
            /\ Note("treeChosen", 0)
            /\ UNCHANGED <<query, searches, flowVars, sessionVars>>
  /\ UNCHANGED apiKey

TreeRecordChosen ==
  /\ mpc = "treeRecordPrompt"
  /\ \E hasIndex \in BOOLEAN : TreeOfRecord(hasIndex)
  /\ UNCHANGED apiKey

\* getFileTree answers with a tree of n files, or fails.
TreeFetched ==
  /\ mpc = "treeFetch"
  /\ \E ok \in BOOLEAN, n \in 0..MaxRecords :
       IF ~ok THEN Catch("apiError")
       ELSE IF n = 0
         THEN /\ Continue(<<>>, apiKey, <<"No files found in tree">>)
              /\ Note("noFiles", 0)
              /\ UNCHANGED apiKey
       ELSE /\ mpc' = "selectPrompt"
            /\ nChoices' = n
            /\ said' = <<"Found">>
            /\ Note("treeListed", 0)
            /\ UNCHANGED <<apiKey, query, searches, nRecords, selection, cursor,
                           downloaded, sessionVars>>

\* 'Generate combolist', offered for a domain only
ChooseCombolist ==
  /\ mpc = "actionPrompt"
  /\ IsDomain(query)
  /\ mpc' = "limitPrompt"
  /\ said' = <<>>
  /\ Note("combolistChosen", 0)
  /\ UNCHANGED <<apiKey, query, searches, flowVars, sessionVars>>

\* The file limit is entered and generateCombolist is called.
LimitEntered ==
  /\ mpc = "limitPrompt"
  /\ mpc' = "combolist"
  /\ said' = <<>>
  /\ Note("combolistStarted", 0)
  /\ UNCHANGED <<apiKey, query, searches, flowVars, sessionVars>>

\* generateCombolist returns, or throws into the catch block around it.
CombolistDone ==
  /\ mpc = "combolist"
  /\ \E ok \in BOOLEAN :
       /\ Continue(<<>>, apiKey, IF ok THEN <<>> ELSE <<"Error generating combolist">>)
       /\ Note(IF ok THEN "combolistDone" ELSE "combolistFailed", 0)
  /\ UNCHANGED apiKey

\* 'Export all system IDs': writeFile is called and awaited.
ChooseExport ==
  /\ mpc = "actionPrompt"
  /\ mpc' = "exporting"
  /\ said' = <<"Exporting">>
  /\ Note("exportStarted", 0)
  /\ UNCHANGED <<apiKey, query, searches, flowVars, sessionVars>>

Exported ==
  /\ mpc = "exporting"
  /\ \E ok \in BOOLEAN :
       /\ Continue(<<>>, apiKey, IF ok THEN <<"Exported">> ELSE <<"Error exporting">>)
       /\ Note(IF ok THEN "exported" ELSE "exportFailed", 0)
  /\ UNCHANGED apiKey

\* Ctrl+C at a prompt: ExitPromptError reaches the catch block, process.exit(0).
ExitPrompt ==
  /\ mpc \in PromptPoints
  /\ mpc' = "exited"
  /\ said' = <<>>
  /\ Note("exitPrompt", 0)
  /\ UNCHANGED <<apiKey, query, searches, flowVars, sessionVars>>

NextMain ==
  \/ Launch \/ ChooseSetKey \/ KeyEntered \/ ChooseLimits \/ LimitsAnswered
  \/ LimitsClosed \/ ChooseSearch \/ QueryEntered \/ SearchAnswered \/ ResultsAnswered
  \/ ChoosePreview \/ PageFetched \/ LookaheadDone \/ PageNext \/ PagePrev
  \/ PageDownload \/ PageDownloaded \/ PageBack
  \/ ChooseResults \/ Selected \/ Downloaded \/ Zipped
  \/ ChooseTree \/ TreeRecordChosen \/ TreeFetched
  \/ ChooseCombolist \/ LimitEntered \/ CombolistDone \/ ChooseExport \/ Exported
  \/ ExitPrompt

SpecMain == InitMain /\ [][NextMain]_vars

----------------------------------------------------------------------------
(* Properties of extractCredentials *)

Credential(u, p) == u \o <<":">> \o p

\* C1: a text of one line in any of the four documented formats, with user name u
\* and password p free of white space, ':' and '|' and a path free of ':' and '|',
\* yields exactly the one credential "u:p".
C1_OneLineOneCredential ==
  extracted =>
    \A f \in 1..4, path \in Paths, u \in Words, p \in Words, nl \in {<<>>, <<"\n">>} :
      text = FormatLine(f, path, u, p) \o nl => credentials = <<Credential(u, p)>>

C1_Witness ==
  /\ extracted
  /\ text = FormatLine(3, <<"x">>, <<"a">>, <<"a", "b">>)
  /\ credentials = <<Credential(<<"a">>, <<"a", "b">>)>>

CredentialsOf(ms) == {Credential(ms[i].u, ms[i].p) : i \in DOMAIN ms}

\* C3: the result holds every credential matched by pattern A or by pattern B and
\* nothing else, and holds no string twice.
C3_UnionWithoutDuplicates ==
  extracted =>
    /\ Range(credentials) = CredentialsOf(Pattern1Matches(text, domain))
                            \cup CredentialsOf(Pattern2Matches(text, domain))
    /\ \A i, j \in DOMAIN credentials : credentials[i] = credentials[j] => i = j

\* One credential matched by both patterns, kept once.
C3_Witness ==
  /\ extracted
  /\ CredentialsOf(Pattern1Matches(text, domain))
       \cap CredentialsOf(Pattern2Matches(text, domain)) # {}
  /\ Len(credentials) = 1

----------------------------------------------------------------------------
(* Properties of findContextInFile *)

NewlinePositions(c) == {i \in DOMAIN c : c[i] = "\n"}
NumLines(c) == Cardinality(NewlinePositions(c)) + 1
\* Position of the n-th line feed of c; 0 for n = 0 and Len(c) + 1 past the last.
NthNewline(c, n) ==
  IF n = 0 THEN 0
  ELSE IF n > Cardinality(NewlinePositions(c)) THEN Len(c) + 1
  ELSE CHOOSE q \in NewlinePositions(c) :
         Cardinality({r \in NewlinePositions(c) : r <= q}) = n
\* The n-th line of c (1-based): what stands between two line feeds.
LineOf(c, n) == SubSeq(c, NthNewline(c, n - 1) + 1, NthNewline(c, n) - 1)

ContainsIgnoringCase(line, t) ==
  \E off \in 0..(Len(line) - Len(t)) :
    \A j \in 1..Len(t) : Lower(line[off + j]) = Lower(t[j])

MatchingLines == {n \in 1..NumLines(content) : ContainsIgnoringCase(LineOf(content, n), term)}

\* C9: one window per line that contains the term without regard to case, in file
\* order with strictly increasing line numbers; windows are never merged.
C9_OneWindowPerMatchingLine ==
  found =>
    /\ Len(matches) = Cardinality(MatchingLines)
    /\ {matches[i].lineNumber : i \in DOMAIN matches} = MatchingLines
    /\ \A i, j \in DOMAIN matches : i < j => matches[i].lineNumber < matches[j].lineNumber

C9_Witness ==
  /\ found
  /\ content = ExampleContent /\ term = ExampleTerm
  /\ Len(matches) = 2
  /\ matches[1].lineNumber = 1 /\ matches[2].lineNumber = 2

\* C10: an empty search term or an empty file text yields an empty sequence.
C10_EmptyTermOrTextYieldsNothing ==
  found /\ (term = <<>> \/ content = <<>>) => matches = <<>>

----------------------------------------------------------------------------
(* Properties of generateCombolist *)

OkCalls == {i \in DOMAIN previewCalls : previewCalls[i].ok}
FailedCalls == {i \in DOMAIN previewCalls : ~previewCalls[i].ok}

\* A failure whose text holds '403', '429' or 'limit'.
QuotaSignal(call) ==
  /\ ~call.ok
  /\ \E sig \in {<<"4", "0", "3">>, <<"4", "2", "9">>, <<"l", "i", "m", "i", "t">>} :
       \E off \in 0..(Len(call.body) - Len(sig)) :
         \A j \in DOMAIN sig : call.body[off + j] = sig[j]
QuotaCalls == {i \in DOMAIN previewCalls : QuotaSignal(previewCalls[i])}

\* The credentials of the records whose preview was fetched.
ExtractedSoFar ==
  UNION {Range(ExtractCredentials(previewCalls[i].body, DomainName(searchTerm))) :
           i \in OkCalls}

\* The lines of the written file: what stands before each line feed.
FileLines == [n \in 1..(NumLines(outputFile.data) - 1) |-> LineOf(outputFile.data, n)]

Said(msg) == {i \in DOMAIN console : console[i].msg = msg}

\* C2: the written file ends each line with a line feed, its lines are in strictly
\* ascending code unit order (so none is repeated), each is one credential, and
\* together they are the credentials of all records whose preview fetch succeeded.
C2_FileSortedDistinctComplete ==
  outputFile.written =>
    /\ outputFile.data # <<>> /\ outputFile.data[Len(outputFile.data)] = "\n"
    /\ \A n \in 1..(Len(FileLines) - 1) : StrLess(FileLines[n], FileLines[n + 1])
    /\ \A n \in DOMAIN FileLines : \A k \in DOMAIN FileLines[n] : ~IsSpace(FileLines[n][k])
    /\ Range(FileLines) = ExtractedSoFar

\* A file of two lines gathered in another order than the sorted one.
C2_Witness ==
  /\ outputFile.written
  /\ Len(FileLines) = 2
  /\ allCredentials # FileLines
  /\ FailedCalls # {}

ReportsZeroCredit == limits.kind = "ok" /\ limits.hasPath /\ limits.hasCredit /\ limits.Credit = 0

\* C4 as claimed: when the quota answer reports zero remaining credit for
\* /file/view, no preview is fetched and no file is written.
C4_ZeroCreditAborts ==
  ReportsZeroCredit => previewCalls = <<>> /\ ~outputFile.written

\* C4 as amended: when the quota answer reports zero remaining credit for
\* /file/view out of a positive CreditMax, the batch ends at once: no preview is
\* fetched and no file is written.
C4_ZeroCreditOfPositiveMaxAborts ==
  ReportsZeroCredit /\ limits.CreditMax > 0 =>
    pc = "done" /\ previewCalls = <<>> /\ ~outputFile.written

C4_Witness ==
  /\ ReportsZeroCredit /\ limits.CreditMax > 0
  /\ pc = "done" /\ processingCount > 0
  /\ Said("exhausted") # {}

\* C5: a preview fetch that fails with a quota signal is the last fetch of the batch.
C5_QuotaSignalStopsFetching ==
  \A i \in QuotaCalls : i = Len(previewCalls) /\ pc \in {"report", "done"}

\* A quota failure with records left over, and the batch over.
C5_Witness ==
  /\ pc = "done"
  /\ QuotaCalls # {}
  /\ Len(previewCalls) < processingCount

\* C6: the count reported as processed before the limit was reached is the
\* number of records whose fetch and extraction succeeded.
C6_StoppedCountIsSuccessCount ==
  \A i \in Said("stopped") : console[i].n = Cardinality(OkCalls)

\* C7: a failure that is no quota signal does not end the batch: each failure is
\* counted, a failed record adds no credential, the record after it is fetched
\* next, and a batch without a quota signal fetches every record.
C7_OtherFailureIsSkipped ==
  /\ errors = Cardinality(FailedCalls)
  /\ Range(allCredentials) = ExtractedSoFar
  /\ \A i \in FailedCalls \ QuotaCalls :
       i < processingCount => (Len(previewCalls) > i \/ (pc = "loop" /\ processed = i))
  /\ pc \in {"report", "done"} /\ QuotaCalls = {} /\ ~QuotaExhausted(limits) =>
       /\ Len(previewCalls) = processingCount
       /\ \A i \in DOMAIN previewCalls : previewCalls[i].record = i

\* A failure without quota signal followed by a successful fetch.
C7_Witness ==
  /\ pc = "done"
  /\ \E i \in FailedCalls \ QuotaCalls : (i + 1) \in OkCalls
  /\ errors = 1

----------------------------------------------------------------------------
(* Properties of wrapLine *)

\* The words of a text: its maximal runs of characters that are not white space.
RECURSIVE TokensOf(_)
TokensOf(s) ==
  LET t == TrimStart(s)
      spaces == {i \in DOMAIN t : IsSpace(t[i])}
      e == IF spaces = {} THEN Len(t) + 1 ELSE Min(spaces)
  IN IF t = <<>> THEN <<>>
     ELSE <<SubSeq(t, 1, e - 1)>> \o TokensOf(SubSeq(t, e, Len(t)))

VisibleLength(s) == Len(StripAnsiCodes(s))

\* C11: for every text and every width from 0 on, each segment wrapLine returns
\* has a visible length (style codes stripped) of at most the width, or is one
\* whole word of the text, standing alone and unbroken.
C11_SegmentsFitOrAreOneToken ==
  wrapDone =>
    \A i \in DOMAIN wrapped :
      \/ VisibleLength(wrapped[i]) <= maxWidth
      \/ /\ TokensOf(wrapped[i]) = <<wrapped[i]>>
         /\ wrapped[i] \in Range(TokensOf(wrapText))

\* A text of several words was broken, and one returned segment is a word wider
\* than the width.
C11_Witness ==
  /\ wrapDone
  /\ Len(TokensOf(wrapText)) >= 2
  /\ Len(wrapped) >= 2
  /\ \E i \in DOMAIN wrapped : VisibleLength(wrapped[i]) > maxWidth
  /\ \E i \in DOMAIN wrapped : wrapped[i] # <<>> /\ VisibleLength(wrapped[i]) <= maxWidth

\* segments.join(' ')
RECURSIVE JoinWithSpaces(_)
JoinWithSpaces(segs) ==
  IF segs = <<>> THEN <<>>
  ELSE IF Len(segs) = 1 THEN Head(segs)
  ELSE Head(segs) \o <<" ">> \o JoinWithSpaces(Tail(segs))

\* C12: the segments wrapLine returns, joined with single spaces, hold the same
\* words in the same order as the text: none lost, doubled, merged or moved.
C12_TokensPreserved ==
  wrapDone => TokensOf(JoinWithSpaces(wrapped)) = TokensOf(wrapText)

\* A text of several words, with a column gap in it, came back in several
\* segments.
C12_Witness ==
  /\ wrapDone
  /\ Len(TokensOf(wrapText)) >= 2
  /\ Includes(wrapText, <<" ", " ", " ">>)
  /\ Len(wrapped) >= 2

\* C13: wrapLine returns no empty segment: nothing at all for an empty or blank
\* text, and otherwise only segments holding a character that is not white space.
C13_NoEmptySegment ==
  wrapDone =>
    /\ Trim(wrapText) = <<>> => wrapped = <<>>
    /\ \A i \in DOMAIN wrapped : Trim(wrapped[i]) # <<>>

----------------------------------------------------------------------------
(* Properties of formatPreview *)

\* The rows of the output that show lines of the files, and the summary rows.
WindowRowIndices == {k \in DOMAIN output : output[k].kind \in {"match", "context"}}
MoreRowIndices == {k \in DOMAIN output : output[k].kind = "more"}

\* C14: formatPreview renders the first min(|matches|, maxMatches) windows and no
\* other, in order, each with its match line under the line number of the match;
\* the 'N more match(es)' row is there if and only if |matches| > maxMatches, it
\* is the last row and N = |matches| - maxMatches; without matches the output is
\* the 'No matches found' indicator alone.
C14_RendersFirstWindows ==
  formatted =>
    IF matches = <<>>
      THEN /\ Len(output) = 1
           /\ output[1].kind = "none"
           /\ StripAnsiCodes(output[1].body) = <<"No matches found in file content.">>
    ELSE LET shown == Min2(Len(matches), maxMatches)
         IN /\ \A k \in DOMAIN output : output[k].kind # "none"
            /\ {output[k].window : k \in WindowRowIndices} = 1..shown
            /\ \A k, l \in WindowRowIndices : k < l => output[k].window <= output[l].window
            /\ \A w \in 1..shown :
                 \E k \in WindowRowIndices :
                   /\ output[k].window = w
                   /\ output[k].kind = "match"
                   /\ TokensOf(StripAnsiCodes(output[k].prefix))
                        = <<<<">">>, NumberToString(matches[w].lineNumber) \o <<":">>>>
            /\ (MoreRowIndices # {}) <=> (Len(matches) > maxMatches)
            /\ \A k \in MoreRowIndices :
                 /\ k = Len(output)
                 /\ StripAnsiCodes(output[k].body) =
                      <<"... and ">> \o NumberToString(Len(matches) - maxMatches)
                      \o <<" more match(es)">>

\* More windows were found than may be shown: one is rendered, and the summary
\* row counts the rest.
C14_Witness ==
  /\ formatted
  /\ maxMatches >= 1
  /\ Len(matches) > maxMatches
  /\ WindowRowIndices # {}
  /\ MoreRowIndices # {}

\* The bodies of the match rows of window w, one after the other.
RECURSIVE MatchBodies(_, _)
MatchBodies(rows, w) ==
  IF rows = <<>> THEN <<>>
  ELSE (IF Head(rows).window = w /\ Head(rows).kind = "match" THEN Head(rows).body
        ELSE <<>>)
       \o MatchBodies(Tail(rows), w)

HighlightCount(s) ==
  Cardinality({i \in 1..(Len(s) - Len(HighlightOpen) + 1) :
                 SubSeq(s, i, i + Len(HighlightOpen) - 1) = HighlightOpen})

\* The occurrences of t in s from position i on, read from the left without
\* overlap and without regard to case.
RECURSIVE Occurrences(_, _, _)
Occurrences(s, i, t) ==
  IF t = <<>> \/ i + Len(t) - 1 > Len(s) THEN 0
  ELSE IF ToLowerCase(SubSeq(s, i, i + Len(t) - 1)) = ToLowerCase(t)
    THEN 1 + Occurrences(s, i + Len(t), t)
  ELSE Occurrences(s, i + 1, t)

\* C15: in every rendered window the match line carries a highlight for every
\* occurrence of the term (found without regard to case, the term read
\* literally), and so at least one.
C15_EveryOccurrenceHighlighted ==
  formatted =>
    \A w \in 1..Min2(Len(matches), maxMatches) :
      LET line == matches[w].context[matches[w].matchLine + 1]
          marks == HighlightCount(MatchBodies(output, w))
      IN marks >= 1 /\ marks = Occurrences(line, 1, term)

----------------------------------------------------------------------------
(* Properties of isDomain *)

\* s is label(-label)*, each label a run of letters and digits.
IsHyphenatedLabels(s) ==
  /\ s # <<>>
  /\ \A i \in DOMAIN s : IsAlnum(s[i]) \/ s[i] = "-"
  /\ s[1] # "-" /\ s[Len(s)] # "-"
  /\ \A i \in 1..(Len(s) - 1) : ~(s[i] = "-" /\ s[i + 1] = "-")

\* The part of s after its last '.': the whole of s when it has none.
LastSegment(s) ==
  LET dots == {i \in DOMAIN s : s[i] = "."}
  IN IF dots = {} THEN s
     ELSE SubSeq(s, (CHOOSE i \in dots : \A j \in dots : j <= i) + 1, Len(s))

\* s is label(-label)*.tld with a tld of two or more letters.
HasDomainShape(s) ==
  \E d \in DOMAIN s :
    /\ s[d] = "."
    /\ IsHyphenatedLabels(SubSeq(s, 1, d - 1))
    /\ Len(s) - d >= 2
    /\ \A i \in (d + 1)..Len(s) : IsAlpha(s[i])

\* C16: isDomain accepts a search term if and only if the term, without its
\* protocol and without what follows the first '/', is label(-label)*.tld with a
\* tld of two or more letters; a term whose last dot-separated segment is not
\* purely alphabetic is rejected.
C16_DomainShape ==
  classified =>
    /\ verdict <=> HasDomainShape(DomainName(candidate))
    /\ (\E i \in DOMAIN LastSegment(DomainName(candidate)) :
          ~IsAlpha(LastSegment(DomainName(candidate))[i])) => ~verdict

\* t starts with a letter or digit, then letters, digits and hyphens, then a
\* '.' and two letters.
StartsLikeDomain(t) ==
  \E d \in 2..(Len(t) - 2) :
    /\ t[d] = "."
    /\ IsAlnum(t[1])
    /\ \A i \in 2..(d - 1) : IsAlnum(t[i]) \/ t[i] = "-"
    /\ IsAlpha(t[d + 1]) /\ IsAlpha(t[d + 2])

\* C16 (amended): isDomain accepts a search term if and only if the term,
\* without its protocol and without what follows the first '/', starts with a
\* letter or digit, then letters, digits and hyphens, then a '.' and two letters;
\* what follows is not looked at.  "example.com" and "https://example.com/path"
\* are accepted, "user@example.com" and a UUID are rejected.
C16_DomainPrefixShape ==
  classified =>
    /\ verdict <=> StartsLikeDomain(DomainName(candidate))
    /\ candidate \in {ExampleCom, ExampleUrl} => verdict
    /\ candidate \in {ExampleEmail, ExampleUuid} => ~verdict

\* A term was accepted whose last dot-separated segment is not purely alphabetic.
C16_Witness ==
  /\ classified
  /\ verdict
  /\ ~HasDomainShape(DomainName(candidate))
  /\ \E i \in DOMAIN LastSegment(DomainName(candidate)) :
       ~IsAlpha(LastSegment(DomainName(candidate))[i])

----------------------------------------------------------------------------
(* Properties of the interactive loop *)

\* The steps that end an action of the menus, and the steps that end in a failure.
CompletedActions ==
  {"keySaved", "limitsClosed", "previewLeft", "archived", "nothingDownloaded",
   "noneSelected", "combolistDone", "exported"}
Failures ==
  {"apiError", "localError", "keyMissing", "noRecords", "indexMissing", "noFiles",
   "combolistFailed", "exportFailed"}

C18_OneFetchInFlight ==
  mpc \in SessionPoints =>
    /\ InFlightTotal(inFlight) <= 1
    /\ mpc = "pageFetch" => InFlightTotal(inFlight) = 0

PreviewFailures == {"pageFetchFailed", "pageDownloadFailed"}

\* C19: when the fetch of the shown page or the download of the shown file
\* fails, the error is printed and the main menu is shown.
C19_FailureReturnsToMenu ==
  event \in PreviewFailures =>
    /\ \E i \in DOMAIN said : said[i] \in {"Error", "Error loading preview"}
    /\ mpc = "menu"

\* C19 (amended): when the fetch of the shown page or the download of the shown
\* file fails, the error is printed and the session goes on at the same page with
\* the same search term: the page prompt is shown, or the page is fetched again.
C19_FailureStaysInSession ==
  [][event' \in PreviewFailures =>
       /\ \E i \in DOMAIN said' : said'[i] \in {"Error", "Error loading preview"}
       /\ mpc' \in {"pagePrompt", "pageFetch"}
       /\ currentPage' = currentPage
       /\ query' = query /\ query' # <<>>
       /\ nRecords' = nRecords]_vars

\* The download of a shown file failed, and the page prompt is shown again.
C19_Witness ==
  /\ event = "pageDownloadFailed"
  /\ "Error" \in Range(said)
  /\ mpc = "pagePrompt"

\* The steps that show a page: the start of the session, next, prev and the turn
\* after a download.
ShowSteps == {"previewOpened", "next", "prev", "pageDownloaded", "pageDownloadFailed"}

\* C20: when a page is shown, its content is fetched and awaited if and only if
\* the cache has no entry for it; a fetch that succeeds stores its entry; a
\* look-ahead that fails stores nothing, prints nothing and moves nothing; and
\* within a session no entry leaves the cache.
C20_CacheProtocol ==
  [][/\ event' \in ShowSteps =>
          (mpc' = "pageFetch" <=> currentPage' \notin preloadedContent')
     /\ event' = "pageFetched" => currentPage' \in preloadedContent'
     /\ event' = "lookaheadStored" => eventPage' \in preloadedContent'
     /\ event' = "lookaheadFailed" =>
          /\ preloadedContent' = preloadedContent
          /\ said' = <<>>
          /\ mpc' = mpc /\ currentPage' = currentPage
     /\ (mpc \in SessionPoints /\ mpc' \in SessionPoints) =>
          preloadedContent \subseteq preloadedContent']_vars

\* The user went on to a page that a look-ahead had stored: it is shown from the
\* cache, without a fetch.
C20_Witness ==
  /\ event = "next"
  /\ mpc = "pagePrompt"
  /\ currentPage \in preloadedContent
  /\ currentPage > 0

----------------------------------------------------------------------------
(* Properties of findContextInFile and formatPreview together *)

\* The rows of the output that carry a line number: every row of a window but
\* the continuation rows of its match line.
NumberedRows ==
  {r \in DOMAIN output :
     /\ output[r].kind \in {"match", "context"}
     /\ ~(r > 1 /\ output[r - 1].window = output[r].window
                /\ output[r - 1].index = output[r].index)}

\* The text a numbered row prints before its content for the number num.
NumberedPrefix(kind, num) ==
  <<IF kind = "match" THEN ">" ELSE " ">>
  \o PadStart(NumberToString(num), LineNumDigits) \o <<":", " ">>

\* C21: the window of a match on line i (0-based) of an n-line text with context
\* size k holds exactly the lines max(0, i-k) .. min(n-1, i+k), 2k+1 of them only
\* when k <= i <= n-1-k; context[matchLine] is the matching line; and the number
\* formatPreview prints before context[j] is the 1-based place of that line in the
\* text.
C21_WindowIsClippedAndNumberedTruly ==
  found =>
    LET lines == SplitLines(content)
        n == Len(lines)
        k == contextLines
    IN \A w \in DOMAIN matches :
         LET m == matches[w]
             i == m.lineNumber - 1
             lo == IF i - k > 0 THEN i - k ELSE 0
             hi == IF i + k < n - 1 THEN i + k ELSE n - 1
         IN /\ i \in 0..(n - 1)
            /\ Len(m.context) = hi - lo + 1
            /\ \A j \in 0..(hi - lo) : m.context[j + 1] = lines[lo + j + 1]
            /\ (Len(m.context) = 2 * k + 1) <=> (k <= i /\ i <= n - 1 - k)
            /\ m.matchLine \in 0..(hi - lo)
            /\ m.context[m.matchLine + 1] = lines[i + 1]
            /\ formatted =>
                 \A r \in NumberedRows :
                   output[r].window = w =>
                     StripAnsiCodes(output[r].prefix)
                       = NumberedPrefix(output[r].kind, lo + output[r].index + 1)

\* A rendered text with a window clipped at the start of the file and a window of
\* 2k+1 lines with k >= 1, both printed with their numbers.
C21_Witness ==
  /\ formatted
  /\ contextLines >= 1
  /\ \E w1, w2 \in DOMAIN matches :
       /\ Len(matches[w1].context) < 2 * contextLines + 1
       /\ matches[w1].matchLine < contextLines
       /\ Len(matches[w2].context) = 2 * contextLines + 1
       /\ \E r1, r2 \in NumberedRows :
            /\ output[r1].window = w1 /\ output[r1].kind = "context"
            /\ output[r2].window = w2 /\ output[r2].index = 2 * contextLines

----------------------------------------------------------------------------
(* Properties of wrapLine: column gaps *)

\* The runs of three or more white space characters of a text, each as the pair
\* of its first and last position.
WideRuns(s) ==
  {be \in (DOMAIN s) \X (DOMAIN s) :
     /\ be[2] - be[1] >= 2
     /\ \A i \in be[1]..be[2] : IsSpace(s[i])
     /\ (be[1] = 1 \/ ~IsSpace(s[be[1] - 1]))
     /\ (be[2] = Len(s) \/ ~IsSpace(s[be[2] + 1]))}

\* C22 as stated: every run of three or more white space characters of the input
\* forces a break and is discarded, so no segment holds such a run.
C22_WideGapAlwaysBreaks ==
  wrapDone => \A j \in DOMAIN wrapped : WideRuns(wrapped[j]) = {}

\* C22 amended: a run of three or more white space characters is discarded only
\* when appending it would take a line that is not empty beyond the width; a run
\* that fits stays in its segment. So a run inside a segment either follows other
\* text of the segment and ends within the width, or opens the first segment of a
\* text that starts with white space.
C22_WideGapBreaksOnlyOnOverflow ==
  wrapDone =>
    \A j \in DOMAIN wrapped :
      \A be \in WideRuns(wrapped[j]) :
        \/ be[1] > 1 /\ VisibleLength(SubSeq(wrapped[j], 1, be[2])) <= maxWidth
        \/ j = 1 /\ be[1] = 1 /\ wrapText # <<>> /\ IsSpace(wrapText[1])

\* A text with two column gaps behind words, wrapped to a width where the first
\* gap fits and stays and the second does not fit and is dropped.
C22_Witness ==
  /\ wrapDone
  /\ Cardinality(WideRuns(wrapText)) = 2
  /\ Len(wrapped) = 2
  /\ \E be \in WideRuns(wrapped[1]) : be[1] > 1 /\ ~IsSpace(wrapped[1][1])
  /\ WideRuns(wrapped[2]) = {}

----------------------------------------------------------------------------
(* Properties of formatPreview: context lines and the gutter *)

\* The rows of context lines in the output.
ContextRows == {r \in DOMAIN output : output[r].kind = "context"}

\* The normalized line a row of the output shows.
ShownLine(r) == NormalizeSpaces(matches[output[r].window].context[output[r].index + 1])

\* The place c where the claim cuts a line s for the width w: the 0-based index
\* of the last space within the first w-3 characters when it exceeds 0.7 w, and
\* w-3 otherwise; a prefix has no negative length.
CutPlace(s, w) ==
  LET at == {i \in 0..(w - 4) : i < Len(s) /\ s[i + 1] = " "}
      last == IF at = {} THEN 0 - 1 ELSE CHOOSE i \in at : \A j \in at : j <= i
      c == IF 10 * last > 7 * w THEN last ELSE w - 3
  IN IF c < 0 THEN 0 ELSE c

\* C23: a context line whose normalized visible length is at most W = columns - 10
\* is shown whole; a longer one is shown as its prefix of length c followed by a
\* 3-character ellipsis; either way the content shown is at most W wide, on every
\* terminal.
C23_ContextLineFitsWidth ==
  formatted =>
    \A r \in ContextRows :
      LET w == MaxLineWidth(columns)
          s == ShownLine(r)
      IN /\ VisibleLength(s) <= w => output[r].body = s
         /\ VisibleLength(s) > w =>
              StripAnsiCodes(output[r].body)
                = SubSeq(s, 1, CutPlace(s, w)) \o <<".", ".", ".">>
         /\ VisibleLength(output[r].body) <= w

\* The continuation rows of a wrapped match line: rows that follow a row of the
\* same line of the same window.
ContinuationRows ==
  {r \in DOMAIN output :
     /\ output[r].kind = "match"
     /\ r > 1
     /\ output[r - 1].window = output[r].window
     /\ output[r - 1].index = output[r].index}

\* The first row of the match line a continuation row belongs to.
FirstRowOf(r) ==
  CHOOSE q \in 1..r :
    /\ q \notin ContinuationRows
    /\ \A p \in (q + 1)..r : p \in ContinuationRows

\* C24: the blank gutter before each continuation segment of a wrapped match line
\* is as wide as the prefix of the first segment (marker, right-justified line
\* number, separator), so all segments start in the same column.
C24_GutterAsWideAsPrefix ==
  formatted =>
    \A r \in ContinuationRows :
      VisibleLength(output[r].prefix) = VisibleLength(output[FirstRowOf(r)].prefix)

----------------------------------------------------------------------------
(* Properties of the preview sizing *)

\* availableLines as the claims define it: max(3, terminalRows - 13), with 24
\* rows for a stream that has none.
Available == LET h == IF terminalRows = 0 THEN 24 ELSE terminalRows
             IN IF h - 13 > 3 THEN h - 13 ELSE 3

\* The smallest whole number that is at least 1.5 (2k + 1).
WrappedEstimate(k) == CHOOSE e \in 0..(4 * k + 2) : 2 * e >= 3 * (2 * k + 1)
                                                     /\ 2 * (e - 1) < 3 * (2 * k + 1)

\* C25: availableLines >= 15 gives k = 4; 10 <= availableLines < 15 gives k = 3;
\* availableLines < 10 gives k < 3 with maxMatches = 1.
C25_ContextThresholds ==
  sized =>
    /\ Available >= 15 => sizing.contextLines = 4
    /\ (Available >= 10 /\ Available < 15) => sizing.contextLines = 3
    /\ Available < 10 => sizing.contextLines < 3 /\ sizing.maxMatches = 1

\* C26 as stated: on every terminal k >= 1, maxMatches >= 1 and the estimate
\* maxMatches * ceil((2k+1) * 1.5) is at most availableLines.
C26_EstimateFits ==
  sized =>
    /\ sizing.contextLines >= 1
    /\ sizing.maxMatches >= 1
    /\ sizing.maxMatches * WrappedEstimate(sizing.contextLines) <= Available

\* C26 amended: on every terminal k >= 1 and maxMatches >= 1; the estimate is at
\* most availableLines whenever availableLines >= 5; with 3 or 4 available lines
\* the policy stops at k = 1 and maxMatches = 1, whose estimate is 5.
C26_EstimateFitsFromFiveLines ==
  sized =>
    /\ sizing.contextLines >= 1
    /\ sizing.maxMatches >= 1
    /\ Available >= 5 =>
         sizing.maxMatches * WrappedEstimate(sizing.contextLines) <= Available
    /\ Available < 5 => sizing.contextLines = 1 /\ sizing.maxMatches = 1

\* A terminal tall enough for two windows of k = 4.
C26_Witness ==
  sized /\ Available >= 28 /\ sizing.contextLines = 4 /\ sizing.maxMatches >= 2

----------------------------------------------------------------------------
(* Properties of extractCredentials: lines *)

\* A line holds the domain (in any case) and, behind one of the two delimiters,
\* the user name and the password of the credential c = "username:password".
LineYields(line, dom, c) ==
  /\ Includes(ToLowerCase(line), ToLowerCase(dom))
  /\ \E i \in DOMAIN c, d \in {":", "|"} :
       /\ c[i] = ":"
       /\ Includes(line, <<d>> \o SubSeq(c, 1, i - 1) \o <<d>> \o SubSeq(c, i + 1, Len(c)))

\* C27: every credential returned lies on one line of the text together with an
\* occurrence of the domain; a credential line of another domain that does not
\* hold the searched domain contributes nothing.
C27_CredentialOnTheDomainLine ==
  extracted =>
    \A j \in DOMAIN credentials :
      \E l \in DOMAIN SplitLines(text) : LineYields(SplitLines(text)[l], domain, credentials[j])

----------------------------------------------------------------------------
(* Properties of the preview session: the page index *)

\* C28: throughout a preview session currentPage stays within 0 .. totalPages-1,
\* whatever the user chose among next, prev and download; a look-ahead is only
\* requested, and content only cached, for an index below totalPages; and a step
\* by 'next' or 'prev' never leaves the range it started in.
C28_PageStaysInRange ==
  /\ mpc \in SessionPoints =>
       /\ nRecords >= 1
       /\ currentPage \in 0..(nRecords - 1)
       /\ \A p \in Pages : inFlight[p] > 0 => p < nRecords
       /\ \A p \in preloadedContent : p \in 0..(nRecords - 1)
  /\ event = "next" => currentPage >= 1
  /\ event = "prev" => currentPage <= nRecords - 2

\* The user went forward to the last page of several, downloaded its file and
\* is back at the prompt of that page.
C28_Witness ==
  /\ mpc = "pagePrompt"
  /\ nRecords = MaxRecords
  /\ currentPage = nRecords - 1
  /\ event \in {"pageDownloaded", "pageDownloadFailed"}

----------------------------------------------------------------------------
(* Properties of main: the API key *)

\* The control points at which a request to the vendor API is awaited.
RequestPoints ==
  {"limitsFetch", "search", "results", "pageFetch", "pageDownload", "downloading",
   "treeFetch", "combolist"}

\* C29: no request to the vendor API is in progress while the API key is unset or
\* empty: the limits and the search paths return to the menu without a key; and
\* the key stored through 'Set API Key' is a trimmed string that is not empty.
C29_NoRequestWithoutKey ==
  /\ (mpc \in RequestPoints \/ InFlightTotal(inFlight) > 0) => apiKey # <<>>
  /\ event = "keyMissing" => mpc = "menu" /\ apiKey = <<>>
  /\ event = "keySaved" => apiKey # <<>> /\ apiKey = Trim(apiKey)

\* A search asked for without a key: refused, the menu is shown again.
C29_Witness ==
  /\ event = "keyMissing"
  /\ apiKey = <<>>
  /\ mpc = "menu"
  /\ said = <<"API key not set">>

----------------------------------------------------------------------------
(* Properties of the download flows *)

\* s holds numbers of t in ascending order (t being ascending: the order of t).
InOrderOf(s, t) ==
  /\ \A i \in DOMAIN s : \E j \in DOMAIN t : s[i] = t[j]
  /\ \A i, j \in DOMAIN s : i < j => s[i] < s[j]

\* C30: in the results and file-tree download flows a failed download does not
\* stop the remaining ones; createZip is called, and creates the archive, if and
\* only if at least one download succeeded; and the entries of the archive are
\* exactly the files downloaded with success, in the order of the selection.
C30_FailedDownloadSkippedArchiveOfSuccesses ==
  [][ /\ mpc = "downloading" =>
           /\ cursor < Len(selection) =>
                /\ mpc' = "downloading"
                /\ cursor' = cursor + 1
                /\ selection' = selection
                /\ event' \in {"fileDownloaded", "fileFailed"}
           /\ cursor = Len(selection) =>
                (mpc' = "zipping" <=> (event' = "fileDownloaded" \/ downloaded # <<>>))
           /\ mpc' \in {"downloading", "zipping"} =>
                /\ event' = "fileDownloaded" =>
                     downloaded' = Append(downloaded, selection[cursor])
                /\ event' = "fileFailed" => downloaded' = downloaded
                /\ InOrderOf(downloaded', SubSeq(selection, 1, cursor))
           /\ mpc' \notin {"downloading", "zipping"} =>
                event' = "nothingDownloaded" /\ written' = <<>>
      /\ written' # <<>> =>
           /\ mpc = "zipping"
           /\ written' = downloaded
           /\ InOrderOf(written', selection)
    ]_vars

\* All files chosen, the second download failed, the third was still made, and
\* createZip is called with the first and the third file.
C30_Witness ==
  /\ mpc = "zipping"
  /\ Len(selection) = 3
  /\ downloaded = <<selection[1], selection[3]>>

====
